---- MODULE Spec2Model ----
(***************************************************************************)
(* video-downloader: the DownloadWorker thread (workers.py), the provider  *)
(* it drives (yt-dlp / ffmpeg, an environment), the files of the download  *)
(* folder, and the MainWindow slots and context menu (gui.py) that consume *)
(* the worker's queued signals.                                            *)
(***************************************************************************)
EXTENDS Integers, Sequences, FiniteSets, TLC

\* ------------------------------------------------------------ bounds
\* progress callbacks (yt-dlp) or stderr lines (ffmpeg) the provider makes in one run
MaxCallbacks == 2

\* ------------------------------------------------------------ text helpers
\* Python's None: where a string is expected, and where a dict is expected
None == "None"

NoneRec == [none |-> TRUE]

UpperChars == "ABCDEFGHIJKLMNOPQRSTUVWXYZ"

LowerChars == "abcdefghijklmnopqrstuvwxyz"

\* the lower-case letter of each upper-case letter
LowerOf ==
    [c \in {SubSeq(UpperChars, i, i) : i \in 1..Len(UpperChars)} |->
        LET i == CHOOSE j \in 1..Len(UpperChars) : SubSeq(UpperChars, j, j) = c
        IN  SubSeq(LowerChars, i, i)]

\* str.lower() on one character
LowerChar(c) == IF c \in DOMAIN LowerOf THEN LowerOf[c] ELSE c

\* str.lower(); lowered[i]: the first i characters, lower-cased
Lower(s) ==
    LET lowered[i \in 0..Len(s)] ==
            IF i = 0 THEN "" ELSE lowered[i - 1] \o LowerChar(SubSeq(s, i, i))
    IN  lowered[Len(s)]

\* Python's `sub in s`
Contains(sub, s) ==
    \E i \in 1..(Len(s) - Len(sub) + 1) : SubSeq(s, i, i + Len(sub) - 1) = sub

\* the test of workers.py:565 and :633-:634 on str(e).lower()
IsForbidden(e) ==
    LET err_str == Lower(e)
    IN  Contains("403", err_str) \/ Contains("forbidden", err_str)

\* ------------------------------------------------------------ numbers
\* A float is kept exactly, as a fraction in lowest terms.
\* Euclid's algorithm
Gcd(a, b) ==
    LET euclid[x \in Nat, y \in Nat] == IF y = 0 THEN x ELSE euclid[y, x % y]
    IN  euclid[a, b]

Rat(n, d) == LET g == Gcd(n, d) IN [n |-> n \div g, d |-> d \div g]

RatLess(a, b) == a.n * b.d < b.n * a.d

RatMin(a, b) == IF RatLess(b, a) THEN b ELSE a

RatAdd(a, b) == Rat(a.n * b.d + b.n * a.d, a.d * b.d)

\* the value in hundredths, rounded as "%.2f" rounds (to nearest, ties to even)
Hundredths(p) ==
    LET q == (p.n * 100) \div p.d
        r == (p.n * 100) % p.d
    IN  IF 2 * r > p.d \/ (2 * r = p.d /\ q % 2 = 1) THEN q + 1 ELSE q

\* the value in tenths, rounded as "%.1f" rounds
Tenths(p) ==
    LET q == (p.n * 10) \div p.d
        r == (p.n * 10) % p.d
    IN  IF 2 * r > p.d \/ (2 * r = p.d /\ q % 2 = 1) THEN q + 1 ELSE q

\* f"{x:.1f}"
Fmt1(p) == LET t == Tenths(p) IN ToString(t \div 10) \o "." \o ToString(t % 10)

\* f"{x:.2f}"
Fmt2(p) ==
    LET h == Hundredths(p)
        c == h % 100
    IN  ToString(h \div 100) \o "." \o (IF c < 10 THEN "0" ELSE "") \o ToString(c)

Digits == "0123456789"

\* the value of each decimal digit
DigitOf ==
    [c \in {SubSeq(Digits, i, i) : i \in 1..Len(Digits)} |->
        (CHOOSE i \in 1..Len(Digits) : SubSeq(Digits, i, i) = c) - 1]

IsDigit(c) == c \in DOMAIN DigitOf

DigitVal(c) == DigitOf[c]

\* the digits of s, read left to right onto acc; read[i]: after the first i digits
ParseNat(s, acc) ==
    LET read[i \in 0..Len(s)] ==
            IF i = 0 THEN acc ELSE 10 * read[i - 1] + DigitVal(SubSeq(s, i, i))
    IN  read[Len(s)]

RECURSIVE Pow10(_)
Pow10(k) == IF k = 0 THEN 1 ELSE 10 * Pow10(k - 1)

AllDigits(s) == \A i \in 1..Len(s) : IsDigit(SubSeq(s, i, i))

\* float(text.replace("%", "")) of gui.py:607-:609 for an unsigned decimal
\* text; NoneRec where float() raises ValueError
ParsePercentText(text) ==
    LET t == IF Len(text) > 0 /\ SubSeq(text, Len(text), Len(text)) = "%"
             THEN SubSeq(text, 1, Len(text) - 1) ELSE text
        dots == {i \in 1..Len(t) : SubSeq(t, i, i) = "."}
    IN  IF Len(t) = 0 \/ Cardinality(dots) > 1 THEN NoneRec
        ELSE IF dots = {}
             THEN IF AllDigits(t) THEN Rat(ParseNat(t, 0), 1) ELSE NoneRec
             ELSE LET k == CHOOSE i \in dots : TRUE
                      ip == SubSeq(t, 1, k - 1)
                      fp == SubSeq(t, k + 1, Len(t))
                  IN  IF AllDigits(ip) /\ AllDigits(fp) /\ Len(ip) + Len(fp) > 0
                      THEN Rat(ParseNat(ip, 0) * Pow10(Len(fp)) + ParseNat(fp, 0),
                               Pow10(Len(fp)))
                      ELSE NoneRec

\* int(x) for x >= 0
IntOf(p) == p.n \div p.d

\* ------------------------------------------------------------ filenames
\* _INVALID_FN_RE of utils.py:268 (a TLA+ string cannot hold NUL, which is left out)
InvalidFnChars == "<>:\"/\\|?*"

\* \s of Python's re
WhitespaceChars == " \t\n\r\f"

IsIn(c, chars) == \E i \in 1..Len(chars) : SubSeq(chars, i, i) = c

RECURSIVE ReplaceInvalid(_)
\* _INVALID_FN_RE.sub("_", name): character by character, the two halves of a long
\* string apart
ReplaceInvalid(s) ==
    IF Len(s) = 0 THEN ""
    ELSE IF Len(s) = 1 THEN (IF IsIn(s, InvalidFnChars) THEN "_" ELSE s)
    ELSE LET half == Len(s) \div 2
         IN  ReplaceInvalid(SubSeq(s, 1, half)) \o ReplaceInvalid(SubSeq(s, half + 1, Len(s)))

\* whitespace runs left as they are
CollapseNothing(s, inRun) == s

RECURSIVE CollapseWs(_, _)
\* re.sub(r"\s+", " ", s); inRun: the character before s was whitespace. The two
\* halves of a long string apart.
CollapseWs(s, inRun) ==
    IF Len(s) = 0 THEN ""
    ELSE IF Len(s) = 1
    THEN (IF IsIn(s, WhitespaceChars) THEN (IF inRun THEN "" ELSE " ") ELSE s)
    ELSE LET half == Len(s) \div 2
         IN  CollapseWs(SubSeq(s, 1, half), inRun)
                 \o CollapseWs(SubSeq(s, half + 1, Len(s)),
                               IsIn(SubSeq(s, half, half), WhitespaceChars))

\* the positions of s that hold no whitespace
NonWhitespace(s) == {i \in 1..Len(s) : ~IsIn(SubSeq(s, i, i), WhitespaceChars)}

\* s from its first character that is not whitespace
LStrip(s) ==
    LET keep == NonWhitespace(s)
    IN  IF keep = {} THEN ""
        ELSE SubSeq(s, CHOOSE i \in keep : \A j \in keep : i <= j, Len(s))

\* s up to its last character that is not whitespace
RStrip(s) ==
    LET keep == NonWhitespace(s)
    IN  IF keep = {} THEN ""
        ELSE SubSeq(s, 1, CHOOSE i \in keep : \A j \in keep : i >= j)

Strip(s) == RStrip(LStrip(s))

sanitize_filename(name, max_length) ==
    IF Len(name) = 0 THEN "download"
    ELSE LET collapsed == Strip(CollapseWs(ReplaceInvalid(name), FALSE))
         IN  IF Len(collapsed) > max_length
             THEN RStrip(SubSeq(collapsed, 1, max_length))
             ELSE collapsed

\* the default of sanitize_filename's max_length
DefaultMaxLength == 240

\* os.path.join(folder, name) for a relative name
PathJoin(folder, name) == folder \o "/" \o name

\* a probe that hands back its first numbered candidate unlooked at
UniqueProbeOnce(files, folder, base, ext, i) ==
    PathJoin(folder, base \o " (" \o ToString(i) \o ")"
                          \o (IF Len(ext) > 0 THEN "." \o ext ELSE ""))

RECURSIVE UniqueProbe(_, _, _, _, _)
\* the while loop of unique_filename, entered with candidate path `full`
UniqueProbe(files, folder, base, ext, i) ==
    LET candidate == base \o " (" \o ToString(i) \o ")"
        candidate_with_ext == IF Len(ext) > 0 THEN candidate \o "." \o ext ELSE candidate
        full == PathJoin(folder, candidate_with_ext)
    IN  IF full \in files THEN UniqueProbe(files, folder, base, ext, i + 1) ELSE full

RECURSIVE LStripDots(_)
\* ext.lstrip(".")
LStripDots(s) ==
    IF Len(s) > 0 /\ SubSeq(s, 1, 1) = "." THEN LStripDots(SubSeq(s, 2, Len(s))) ELSE s

\* unique_filename that does not look whether its first candidate exists
UniqueUnlooked(files, folder, base_name, ext0) ==
    PathJoin(folder, sanitize_filename(base_name, DefaultMaxLength)
                     \o (IF Len(LStripDots(ext0)) > 0 THEN "." \o LStripDots(ext0) ELSE ""))

\* unique_filename for a folder that exists; files: the paths that exist
unique_filename(files, folder, base_name, ext0) ==
    LET base == sanitize_filename(base_name, DefaultMaxLength)
        ext == LStripDots(ext0)
        candidate == IF Len(ext) > 0 THEN base \o "." \o ext ELSE base
        full == PathJoin(folder, candidate)
    IN  IF full \in files THEN UniqueProbe(files, folder, base, ext, 1) ELSE full

\* _is_direct_download_url: the patterns are looked for in the lower-cased path
IsDirectDownloadUrl(url) ==
    LET path == Lower(url.path)
    IN  Contains("download.aspx", path) \/ Contains("/_layouts/15/download", path)

\* get_videasy_headers(): the fallback header set
VideasyHeaders ==
    [UserAgent |-> "Mozilla/5.0",
     Origin |-> "https://player.videasy.net",
     Referer |-> "https://player.videasy.net/"]

\* ------------------------------------------------------------ size label
SizeUnits == <<"B", "KB", "MB", "GB">>

RECURSIVE ToLimbs(_)
\* a byte count as its digits to the base 1024, the least significant first
ToLimbs(n) == IF n < 1024 THEN <<n>> ELSE <<n % 1024>> \o ToLimbs(n \div 1024)

\* size < 1024, for the byte count `limbs` divided by 1024 k times: its integer part,
\* the digits from the k+1-th on, is one digit
Below1024(limbs, k) == \A j \in (k + 2)..Len(limbs) : limbs[j] = 0

RECURSIVE IntPart(_, _)
\* the integer part of the byte count divided by 1024 k times
IntPart(limbs, k) ==
    IF k >= Len(limbs) THEN 0 ELSE limbs[k + 1] + 1024 * IntPart(limbs, k + 1)

RECURSIVE CentCarry(_, _)
\* a hundred times the fraction the first k digits make after k divisions:
\* q + (r + f) / 1024 with 0 <= f < 1, and sticky: f is not 0
CentCarry(limbs, k) ==
    IF k = 0 THEN [q |-> 0, r |-> 0, sticky |-> FALSE]
    ELSE LET low == CentCarry(limbs, k - 1)
             t == 100 * (IF k <= Len(limbs) THEN limbs[k] ELSE 0) + low.q
         IN  [q |-> t \div 1024, r |-> t % 1024, sticky |-> low.sticky \/ low.r # 0]

\* f"{size:.2f}" of the byte count divided by 1024 k times (the division of a float
\* by 1024 is exact): to nearest, ties to even
Fmt2Limbs(limbs, k) ==
    LET c == CentCarry(limbs, k)
        q == 100 * IntPart(limbs, k) + c.q
        up == c.r > 512 \/ (c.r = 512 /\ (c.sticky \/ q % 2 = 1))
        h == IF up THEN q + 1 ELSE q
        cents == h % 100
    IN  ToString(h \div 100) \o "." \o (IF cents < 10 THEN "0" ELSE "") \o ToString(cents)

RECURSIVE SizeLoopInclusive(_, _)
\* the loop with `size <= 1024` for its test
SizeLoopInclusive(limbs, i) ==
    IF i > Len(SizeUnits) THEN Fmt2Limbs(limbs, i - 1) \o " TB"
    ELSE IF Below1024(limbs, i - 1)
            \/ (IntPart(limbs, i - 1) = 1024 /\ CentCarry(limbs, i - 1).q = 0
                /\ CentCarry(limbs, i - 1).r = 0 /\ ~CentCarry(limbs, i - 1).sticky)
         THEN Fmt2Limbs(limbs, i - 1) \o " " \o SizeUnits[i]
         ELSE SizeLoopInclusive(limbs, i + 1)

RECURSIVE SizeLoop(_, _)
\* the for/else over the units, entered for the i-th unit after i - 1 divisions: size
\* is divided by 1024 until it is below 1024
SizeLoop(limbs, i) ==
    IF i > Len(SizeUnits) THEN Fmt2Limbs(limbs, i - 1) \o " TB"
    ELSE IF Below1024(limbs, i - 1) THEN Fmt2Limbs(limbs, i - 1) \o " " \o SizeUnits[i]
         ELSE SizeLoop(limbs, i + 1)

\* the label of a byte count given by its digits; all digits 0: a missing (None) or
\* zero size
FilesizeLabel(limbs) ==
    IF \A j \in 1..Len(limbs) : limbs[j] = 0 THEN "Unknown" ELSE SizeLoop(limbs, 1)

\* filesize: a byte count, 0 for a missing (None) or zero size
FilesizeStr(filesize) == FilesizeLabel(ToLimbs(filesize))

\* ------------------------------------------------------------ option bundle
\* net_config.get(key, default)
ConfigGet(net_config, key, default) ==
    IF key \in DOMAIN net_config THEN net_config[key] ELSE default

\* a selector that never bounds the height
VideoSelectorUnbounded(video_quality, unbounded, bounded_prefix, bounded_suffix) ==
    unbounded

\* the format selector of the two video branches
VideoSelector(video_quality, unbounded, bounded_prefix, bounded_suffix) ==
    IF video_quality = "best" THEN unbounded
    ELSE IF video_quality # None /\ Len(video_quality) > 0
         THEN bounded_prefix \o video_quality \o bounded_suffix
         ELSE unbounded

\* build_ydl_opts: the fields that vary; a key the dict lacks is None (NoneRec for
\* a dict or list of dicts, <<>> for a list of strings)
build_ydl_opts(fmt, video_quality, audio_bitrate, net_config) ==
    LET tuning ==
            [concurrent_fragment_downloads |->
                 ParseNat(ConfigGet(net_config, "concurrent_fragment_downloads", "3"), 0),
             http_chunk_size |->
                 ParseNat(ConfigGet(net_config, "http_chunk_size", "1048576"), 0),
             outtmpl |-> None,
             http_headers |-> NoneRec]
        with_audio ==
            VideoSelector(video_quality, "bestvideo+bestaudio/best",
                          "bestvideo[height<=",
                          "]+bestaudio/best[height<=" \o
                              (IF video_quality = None THEN "" ELSE video_quality) \o "]")
    IN  IF fmt \in {"mp4 (with Audio)", "avi", "mkv"}
        THEN tuning @@
             [format |-> with_audio,
              merge_output_format |-> IF fmt = "mp4 (with Audio)" THEN "mp4" ELSE Lower(fmt),
              postprocessor_args |->
                  IF fmt = "mp4 (with Audio)" THEN <<"-c", "copy">> ELSE <<>>,
              postprocessors |-> NoneRec]
        ELSE IF fmt = "mp4 (without Audio)"
        THEN tuning @@
             [format |-> VideoSelector(video_quality, "bestvideo",
                                       "bestvideo[height<=", "]"),
              merge_output_format |-> "mp4",
              postprocessor_args |-> <<"-c", "copy">>,
              postprocessors |-> NoneRec]
        ELSE IF fmt = "mp3"
        THEN tuning @@
             [format |-> "bestaudio",
              merge_output_format |-> None,
              postprocessor_args |-> <<>>,
              postprocessors |->
                  [key |-> "FFmpegExtractAudio", preferredcodec |-> "mp3",
                   preferredquality |-> audio_bitrate]]
        ELSE tuning @@
             [format |-> "bestvideo+bestaudio/best",
              merge_output_format |-> "mp4",
              postprocessor_args |-> <<"-c", "copy">>,
              postprocessors |-> NoneRec]

\* ------------------------------------------------------------ the environment
\* largest elapsed time (seconds) an ffmpeg progress line reports
MaxElapsed == 3

Folder == "dl"

\* a URL: its path and the value of its "share" query parameter (None: absent)
Urls ==
    {[path |-> "/watch", share |-> None],
     [path |-> "/_layouts/15/Download.aspx", share |-> "clip"]}

\* str(e) of the exceptions the provider raises
ProviderErrors == {"HTTP Error 403", "ERROR: Forbidden", "timed out"}

\* what extract_info returns: title, ext, whether a format has a video codec, size
ProbeInfos ==
    [title : {"clip"}, ext : {"mp4", "webm"}, has_video : BOOLEAN, filesize : {1536}]

\* the extension the provider gives a "%(ext)s" template when it transfers
TransferExts == {"mp4", "webm"}

\* the metadata MainWindow may hold for the URL (None: no cache hit)
CachedMetadatas == {NoneRec, [title |-> "clip", filesize |-> "Unknown"]}

\* the payloads d of a progress callback; total 0: neither total_bytes nor an estimate
Payloads ==
    [status : {"downloading"}, downloaded_bytes : {1, 3}, total : {0, 2}]
    \cup {[status |-> "finished", downloaded_bytes |-> 0, total |-> 0],
          [status |-> "error", downloaded_bytes |-> 0, total |-> 0]}

\* the Duration values (seconds) ffmpeg may print
DurationSecs == {0, 2}

\* ------------------------------------------------------------ state
VARIABLES
    pc,                    \* where the DownloadWorker thread is ("none": no worker yet)
    url,                   \* self.url
    cached_metadata,       \* self.cached_metadata
    forced_outtmpl,        \* self.forced_outtmpl
    paused,                \* self._paused
    cancelled,             \* self._cancelled
    current_outtmpl,       \* self.current_outtmpl
    used_videasy_headers,  \* self._used_videasy_headers
    ydl_opts,              \* run()'s ydl_opts
    info,                  \* run()'s info while the no-video retry is pending
    in_retry,              \* the transfer is the one of workers.py:639-:640
    exc,                   \* the exception run() is handling at :646
    callbacks,             \* callbacks / stderr lines the provider has made
    out_file,              \* the file the provider call in progress writes
    total_secs,            \* _download_direct's total_secs: <<>> (None) or <<seconds>>
    fs,                    \* the files that exist
    emitted,               \* every signal the worker has emitted, in order
    pause_log,             \* what is known of pause(): events: the progress signals
                           \* emitted since the pause in force, ever: pause() was called
    meta,                  \* the MetadataWorker thread
    call,                  \* a call of a helper function: its arguments and its result
    win,                   \* MainWindow's input fields, its metadata cache, the
                           \* MetadataWorkers and DownloadWorkers it started, the disk
    delivered,             \* how many of them the GUI thread has handled
    xfers,                 \* history: the transfer calls, [headers, used, result]
    probes,                \* history: the probe calls, [headers, result]
    wrote,                 \* history: the provider has written output
    cancel_abort,          \* history: a callback saw the cancel flag and aborted
    table,                 \* download_table: rows of [title, status, progress, size]
    download_progress,     \* self.download_progress[row]
    overall,               \* overall_progress_bar's value
    window                 \* "open", "closing" (closeEvent is waiting), "closed"

vars ==
    <<pc, url, cached_metadata, forced_outtmpl, paused, cancelled, current_outtmpl,
      used_videasy_headers, ydl_opts, info, in_retry, exc, callbacks, out_file,
      total_secs, fs, emitted, pause_log, delivered, xfers, probes, wrote,
      cancel_abort, table, download_progress, overall, window, meta, call, win>>

\* the variables the download of a file leaves alone
aside == <<meta, call, win>>

workerConfig == <<url, cached_metadata, forced_outtmpl>>

guiVars == <<table, download_progress, overall, window, delivered>>

history == <<xfers, probes, wrote, cancel_abort>>

\* ------------------------------------------------------------ signals
TitleSignal(t) == [sig |-> "title", text |-> t, percent |-> Rat(0, 1)]

SizeSignal(t) == [sig |-> "size", text |-> t, percent |-> Rat(0, 1)]

ProgressSignal(p, status) == [sig |-> "progress", text |-> status, percent |-> p]

FinishedSignal == [sig |-> "finished", text |-> "", percent |-> Rat(0, 1)]

ErrorSignal(msg) == [sig |-> "error", text |-> msg, percent |-> Rat(0, 1)]

\* the worker emits signals; where the pause log is kept, those that are progress
\* signals are counted while a pause is in force; where the cancel log is kept, those
\* emitted with the cancel flag set are counted
Emit(signals) ==
    LET progress == Cardinality({i \in 1..Len(signals) : signals[i].sig = "progress"})
    IN  /\ emitted' = emitted \o signals
        /\ pause_log' =
               [pause_log EXCEPT
                  !.events = IF pause_log.on /\ paused THEN @ + progress ELSE 0,
                  !.after_cancel = IF pause_log.cancel_on /\ cancelled
                                   THEN @ + progress ELSE @]

Part(path) == path \o ".part"

EndsWith(s, suffix) ==
    Len(s) >= Len(suffix) /\ SubSeq(s, Len(s) - Len(suffix) + 1, Len(s)) = suffix

\* the provider's expansion of "%(ext)s" in an output template
ExpandExt(outtmpl, ext) ==
    IF EndsWith(outtmpl, ".%(ext)s")
    THEN SubSeq(outtmpl, 1, Len(outtmpl) - Len("%(ext)s")) \o ext
    ELSE outtmpl

\* dict(ydl_opts) with http_headers = get_videasy_headers()
WithHeaders(opts) == [opts EXCEPT !.http_headers = VideasyHeaders]

\* has_video is false: format "best", merge options popped
SingleFile(opts) ==
    [opts EXCEPT !.format = "best", !.merge_output_format = None,
                 !.postprocessor_args = <<>>]

\* no MetadataWorker has been started
MetaIdle ==
    [pc |-> "none", url |-> NoneRec, info |-> NoneRec, exc |-> None, pixmap |-> None,
     probes |-> <<>>, signals |-> <<>>]

\* no helper function is being called
CallIdle == [fn |-> "none"]

\* the pause log is not kept
NoPauseLog ==
    [on |-> FALSE, events |-> 0, ever |-> FALSE, cancel_on |-> FALSE, after_cancel |-> 0]

\* the pause log is kept, and there was no pause() yet
NeverPaused == [NoPauseLog EXCEPT !.on = TRUE]

\* the cancel log is kept: the progress signals emitted after cancel() are counted
NeverCancelled == [NoPauseLog EXCEPT !.cancel_on = TRUE]

\* the working directory of the process
Cwd == "."

\* the commands of the context menu are not recorded
NoCommandLog == [off |-> TRUE]

\* MainWindow.__init__: the fields are empty but for the folder, nothing is cached,
\* the download button is disabled, nothing was started. dialog: the filename dialog
\* start_download is waiting in (None: not open); workers: the URLs of the
\* MetadataWorkers that have not emitted yet; tasks: the DownloadWorkers; rows: the
\* rows of download_table; dirs, files: the directories and files that exist;
\* cached_from: history, the URL whose probe returned cached_metadata; edits: history,
\* the number of changes of the URL field; active_downloads: the dict from a row to
\* its worker, a worker being named by its place in tasks; command: history, the
\* last entry chosen in the context menu and the row it was chosen on; close: where
\* closeEvent is ("open": not in it, "asking": in the question box, "waiting": in
\* w.wait, "closed": accepted), its running_workers and the last reply
WindowAtStart ==
    [url_edit |-> "", folder_edit |-> Folder, last_url |-> "", cached_url |-> None,
     cached_metadata |-> NoneRec, cached_from |-> None, download_button |-> FALSE,
     dialog |-> NoneRec, workers |-> <<>>, tasks |-> <<>>, rows |-> 0,
     dirs |-> {Folder, Cwd}, files |-> {}, edits |-> 0, active_downloads |-> <<>>,
     command |-> NoCommandLog, close |-> [state |-> "open", running |-> {}, reply |-> None]]

\* no DownloadWorker and no MetadataWorker was started, nothing was emitted or shown
NoWorkers ==
    /\ pc = "none"
    /\ url = NoneRec
    /\ cached_metadata = NoneRec
    /\ forced_outtmpl = None
    /\ paused = FALSE
    /\ cancelled = FALSE
    /\ current_outtmpl = None
    /\ used_videasy_headers = FALSE
    /\ ydl_opts = NoneRec
    /\ info = NoneRec
    /\ in_retry = FALSE
    /\ exc = None
    /\ callbacks = 0
    /\ out_file = None
    /\ total_secs = <<>>
    /\ fs = {}
    /\ emitted = <<>>
    /\ meta = MetaIdle
    /\ delivered = 0
    /\ xfers = <<>>
    /\ probes = <<>>
    /\ wrote = FALSE
    /\ cancel_abort = FALSE
    /\ table = <<>>
    /\ download_progress = Rat(0, 1)
    /\ overall = 0
    /\ window = "open"

\* the state after MainWindow.__init__
Constructed == NoWorkers /\ win = WindowAtStart

Init == Constructed /\ pause_log = NoPauseLog /\ call = CallIdle

\* the same start, with the pause log kept
PauseLogInit == Constructed /\ pause_log = NeverPaused /\ call = CallIdle

\* the same start, with the cancel log kept
CancelLogInit == Constructed /\ pause_log = NeverCancelled /\ call = CallIdle

\* ------------------------------------------------------------ DownloadWorker
\* the request start_download builds for the worker
WorkerFmt == "mp4 (with Audio)"

WorkerQuality == "best"

WorkerBitrate == "320"

NetConfig == [concurrent_fragment_downloads |-> "5", http_chunk_size |-> "2097152"]

\* run() up to the probe: direct-download test, base options, forced and cached names
RunStart ==
    /\ pc = "start"
    /\ window # "closed"
    /\ IF IsDirectDownloadUrl(url)
       THEN /\ pc' = "d_head"
            /\ UNCHANGED <<ydl_opts, current_outtmpl, emitted, pause_log>>
       ELSE LET base == build_ydl_opts(WorkerFmt, WorkerQuality, WorkerBitrate, NetConfig)
                opts0 == IF forced_outtmpl # None
                         THEN [base EXCEPT !.outtmpl = forced_outtmpl] ELSE base
            IN  IF cached_metadata # NoneRec
                THEN LET title == cached_metadata.title
                         safe_title == sanitize_filename(title, DefaultMaxLength)
                     IN  /\ ydl_opts' =
                                IF forced_outtmpl = None
                                THEN [opts0 EXCEPT
                                        !.outtmpl = PathJoin(Folder, safe_title \o ".%(ext)s")]
                                ELSE opts0
                         /\ current_outtmpl' =
                                IF forced_outtmpl = None
                                THEN PathJoin(Folder, safe_title \o ".mp4")
                                ELSE forced_outtmpl
                         /\ Emit(<<TitleSignal(title),
                                   SizeSignal(cached_metadata.filesize)>>)
                         /\ pc' = "download"
                ELSE /\ ydl_opts' =
                            IF opts0.outtmpl = None
                            THEN [opts0 EXCEPT
                                    !.outtmpl = PathJoin(Folder, "%(title)s.%(ext)s")]
                            ELSE opts0
                     /\ current_outtmpl' = forced_outtmpl
                     /\ pc' = "probe"
                     /\ UNCHANGED <<emitted, pause_log>>
    /\ UNCHANGED <<workerConfig, paused, cancelled, used_videasy_headers, info, in_retry,
                   exc, callbacks, out_file, total_secs, fs, history, guiVars>>
    /\ UNCHANGED aside

\* the rest of a successful probe: title, output path, single-file fallback, size
FinishProbe(inf, has_video, opts) ==
    LET title == inf.title
        safe_title == sanitize_filename(title, DefaultMaxLength)
        opts1 == IF forced_outtmpl = None
                 THEN [opts EXCEPT !.outtmpl = PathJoin(Folder, safe_title \o ".%(ext)s")]
                 ELSE opts
    IN  /\ current_outtmpl' =
               IF forced_outtmpl = None
               THEN PathJoin(Folder, safe_title \o "." \o inf.ext)
               ELSE current_outtmpl
        /\ ydl_opts' = IF has_video THEN opts1 ELSE SingleFile(opts1)
        /\ Emit(<<TitleSignal(title), SizeSignal(FilesizeStr(inf.filesize))>>)
        /\ pc' = "download"

\* history: extract_info was called, with the fallback headers or not, and ended so
ProbeCalled(headers, result) ==
    probes' = Append(probes, [headers |-> headers, result |-> result])

\* the first extract_info and the except clause that sorts its failure
ProbeFirst ==
    /\ pc = "probe"
    /\ window # "closed"
    /\ \/ \E inf \in ProbeInfos :
            /\ ProbeCalled(ydl_opts.http_headers # NoneRec, "ok")
            /\ IF ~inf.has_video /\ ~used_videasy_headers
               THEN /\ info' = inf
                    /\ pc' = "probe_novideo"
                    /\ UNCHANGED <<current_outtmpl, ydl_opts, emitted, pause_log>>
               ELSE /\ FinishProbe(inf, inf.has_video, ydl_opts)
                    /\ UNCHANGED info
       \/ \E msg \in ProviderErrors :
            /\ ProbeCalled(ydl_opts.http_headers # NoneRec, msg)
            /\ IF IsForbidden(msg)
               THEN pc' = "probe_403" /\ UNCHANGED <<emitted, pause_log>>
               ELSE pc' = "done" /\ Emit(<<ErrorSignal(msg)>>)
            /\ UNCHANGED <<info, current_outtmpl, ydl_opts>>
    /\ UNCHANGED <<workerConfig, paused, cancelled, used_videasy_headers, in_retry, exc,
                   callbacks, out_file, total_secs, fs, xfers, wrote, cancel_abort,
                   guiVars>>
    /\ UNCHANGED aside

\* no video format seen: extract_info again with the Videasy headers; a failure of
\* this call is swallowed
ProbeNoVideoRetry ==
    /\ pc = "probe_novideo"
    /\ window # "closed"
    /\ \/ \E inf2 \in ProbeInfos :
            /\ ProbeCalled(TRUE, "ok")
            /\ used_videasy_headers' = TRUE
            /\ FinishProbe(inf2, inf2.has_video,
                           IF inf2.has_video THEN WithHeaders(ydl_opts) ELSE ydl_opts)
       \/ \E msg \in ProviderErrors :
            /\ ProbeCalled(TRUE, msg)
            /\ UNCHANGED used_videasy_headers
            /\ FinishProbe(info, FALSE, ydl_opts)
    /\ info' = NoneRec
    /\ UNCHANGED <<workerConfig, paused, cancelled, in_retry, exc, callbacks, out_file,
                   total_secs, fs, xfers, wrote, cancel_abort, guiVars>>
    /\ UNCHANGED aside

\* the probe failed with 403/forbidden: extract_info again with the Videasy headers
Probe403Retry ==
    /\ pc = "probe_403"
    /\ window # "closed"
    /\ \/ \E inf \in ProbeInfos :
            /\ ProbeCalled(TRUE, "ok")
            /\ used_videasy_headers' = TRUE
            /\ FinishProbe(inf, inf.has_video, WithHeaders(ydl_opts))
       \/ \E msg \in ProviderErrors :
            /\ ProbeCalled(TRUE, msg)
            /\ Emit(<<ErrorSignal(msg)>>)
            /\ pc' = "done"
            /\ UNCHANGED <<used_videasy_headers, current_outtmpl, ydl_opts>>
    /\ UNCHANGED <<workerConfig, paused, cancelled, info, in_retry, exc, callbacks,
                   out_file, total_secs, fs, xfers, wrote, cancel_abort, guiVars>>
    /\ UNCHANGED aside

\* the options of the transfer call about to be made
TransferOpts == IF in_retry THEN WithHeaders(ydl_opts) ELSE ydl_opts

\* ydl.download([self.url]) is entered
YdlDownload ==
    /\ pc = "download"
    /\ window # "closed"
    /\ xfers' = Append(xfers, [headers |-> TransferOpts.http_headers # NoneRec,
                               used |-> used_videasy_headers,
                               result |-> "running"])
    /\ \E ext \in TransferExts : out_file' = ExpandExt(TransferOpts.outtmpl, ext)
    /\ pc' = "transfer"
    /\ UNCHANGED <<workerConfig, paused, cancelled, current_outtmpl, used_videasy_headers,
                   ydl_opts, info, in_retry, exc, callbacks, total_secs, fs, emitted, pause_log,
                   probes, wrote, cancel_abort, guiVars>>
    /\ UNCHANGED aside

\* a retry condition that leaves the latch out
RetryIgnoringLatch(used, msg) == IsForbidden(msg)

\* a retry condition that leaves the message out
RetryOnAnyError(used, msg) == ~used

\* the condition of the transfer-time retry
RetryWithHeaders(used, msg) == ~used /\ IsForbidden(msg)

\* an exception leaves ydl.download: retry once with headers, or go to the clean-up
TransferRaise(msg) ==
    /\ xfers' = [xfers EXCEPT ![Len(xfers)].result = msg]
    /\ IF ~in_retry /\ RetryWithHeaders(used_videasy_headers, msg)
       THEN /\ in_retry' = TRUE
            /\ pc' = "download"
            /\ UNCHANGED exc
       ELSE /\ pc' = "cleanup"
            /\ exc' = msg
            /\ UNCHANGED in_retry

\* the provider writes the partial file of its output file, which it renames to the
\* output file when the transfer is complete
ProviderWrite ==
    /\ pc = "transfer"
    /\ window # "closed"
    /\ fs' = fs \cup {Part(out_file)}
    /\ wrote' = TRUE
    /\ UNCHANGED <<pc, workerConfig, paused, cancelled, current_outtmpl,
                   used_videasy_headers, ydl_opts, info, in_retry, exc, callbacks,
                   out_file, total_secs, emitted, pause_log, xfers, probes, cancel_abort, guiVars>>
    /\ UNCHANGED aside

\* the provider calls progress_hook
ProviderCallback ==
    /\ pc = "transfer"
    /\ window # "closed"
    /\ callbacks < MaxCallbacks
    /\ callbacks' = callbacks + 1
    /\ pc' = "hook"
    /\ UNCHANGED <<workerConfig, paused, cancelled, current_outtmpl, used_videasy_headers,
                   ydl_opts, info, in_retry, exc, out_file, total_secs, fs, emitted, pause_log,
                   history, guiVars>>
    /\ UNCHANGED aside

\* progress_hook: if self._cancelled: raise Exception("Cancelled")
HookCheckCancel ==
    /\ pc = "hook"
    /\ window # "closed"
    /\ IF cancelled
       THEN /\ cancel_abort' = TRUE
            /\ TransferRaise("Cancelled")
       ELSE /\ pc' = "hook_wait"
            /\ UNCHANGED <<cancel_abort, xfers, in_retry, exc>>
    /\ UNCHANGED <<workerConfig, paused, cancelled, current_outtmpl, used_videasy_headers,
                   ydl_opts, info, callbacks, out_file, total_secs, fs, emitted, pause_log, probes,
                   wrote, guiVars>>
    /\ UNCHANGED aside

\* progress_hook: while self._paused: time.sleep(0.2)
HookWait ==
    /\ pc = "hook_wait"
    /\ window # "closed"
    /\ ~paused
    /\ pc' = "hook_emit"
    /\ UNCHANGED <<workerConfig, paused, cancelled, current_outtmpl, used_videasy_headers,
                   ydl_opts, info, in_retry, exc, callbacks, out_file, total_secs, fs,
                   emitted, pause_log, history, guiVars>>
    /\ UNCHANGED aside

\* the percent progress_hook computes for a "downloading" payload
HookPercent(d) ==
    IF d.total # 0 THEN Rat(d.downloaded_bytes * 100, d.total) ELSE Rat(0, 1)

\* the signals progress_hook emits for payload d
HookSignals(d) ==
    IF d.status = "downloading" THEN <<ProgressSignal(HookPercent(d), "Downloading")>>
    ELSE IF d.status = "finished" THEN <<ProgressSignal(Rat(100, 1), "Finished")>>
    ELSE <<>>

\* progress_hook: the status branches; then the provider goes on
HookEmit ==
    /\ pc = "hook_emit"
    /\ window # "closed"
    /\ \E d \in Payloads : Emit(HookSignals(d))
    /\ pc' = "transfer"
    /\ UNCHANGED <<workerConfig, paused, cancelled, current_outtmpl, used_videasy_headers,
                   ydl_opts, info, in_retry, exc, callbacks, out_file, total_secs, fs,
                   history, guiVars>>
    /\ UNCHANGED aside

\* run() without the return after the second transfer's finished_signal
FallThroughAfterRetry(retry) == IF retry THEN "cleanup" ELSE "done"

\* where run() is after finished_signal: the end of run() after the first transfer
\* (retry FALSE), the return of workers.py:642 after the second
AfterSuccess(retry) == "done"

\* ydl.download returns: the output file is in place; finished_signal is emitted
ProviderSuccess ==
    /\ pc = "transfer"
    /\ window # "closed"
    /\ fs' = (fs \ {Part(out_file)}) \cup {out_file}
    /\ wrote' = TRUE
    /\ xfers' = [xfers EXCEPT ![Len(xfers)].result = "ok"]
    /\ Emit(<<FinishedSignal>>)
    /\ pc' = AfterSuccess(in_retry)
    /\ UNCHANGED <<workerConfig, paused, cancelled, current_outtmpl, used_videasy_headers,
                   ydl_opts, info, in_retry, exc, callbacks, out_file, total_secs, probes,
                   cancel_abort, guiVars>>
    /\ UNCHANGED aside

\* ydl.download raises
ProviderRaise ==
    /\ pc = "transfer"
    /\ window # "closed"
    /\ \E msg \in ProviderErrors : TransferRaise(msg)
    /\ UNCHANGED <<workerConfig, paused, cancelled, current_outtmpl, used_videasy_headers,
                   ydl_opts, info, callbacks, out_file, total_secs, fs, emitted, pause_log, probes,
                   wrote, cancel_abort, guiVars>>
    /\ UNCHANGED aside

\* the files the clean-up of run() removes
CleanupTargets(outtmpl) == IF outtmpl # None THEN {outtmpl, Part(outtmpl)} ELSE {}

\* cleanup partially downloaded files, then error_signal.emit(str(e))
Cleanup ==
    /\ pc = "cleanup"
    /\ window # "closed"
    /\ fs' = fs \ CleanupTargets(current_outtmpl)
    /\ Emit(<<ErrorSignal(exc)>>)
    /\ pc' = "done"
    /\ UNCHANGED <<workerConfig, paused, cancelled, current_outtmpl, used_videasy_headers,
                   ydl_opts, info, in_retry, exc, callbacks, out_file, total_secs,
                   history, guiVars>>
    /\ UNCHANGED aside

\* ------------------------------------------------------------ _download_direct
\* the filename of the Content-Disposition header of the HEAD response (None: absent)
ContentDispositions == {None, "movie.mkv"}

\* os.path.splitext(name)[0]
SplitExtStem(name) ==
    LET dots == {i \in 1..Len(name) :
                    /\ SubSeq(name, i, i) = "."
                    /\ \E j \in 1..(i - 1) : SubSeq(name, j, j) # "."}
    IN  IF dots = {} THEN name
        ELSE SubSeq(name, 1, (CHOOSE i \in dots : \A j \in dots : j <= i) - 1)

\* the base name: from the header, else from the share token, else "video"
DirectBase(cd, u) ==
    IF cd # None THEN SplitExtStem(Strip(cd))
    ELSE LET token == IF u.share # None THEN u.share ELSE "video"
             clean == sanitize_filename(token, DefaultMaxLength)
         IN  IF Len(clean) > 0 THEN clean ELSE "video"

RECURSIVE DirectCounter(_, _, _)
\* the while loop over base_1.mp4, base_2.mp4, ...
DirectCounter(files, base, counter) ==
    LET out_path == PathJoin(Folder, base \o "_" \o ToString(counter) \o ".mp4")
    IN  IF out_path \in files THEN DirectCounter(files, base, counter + 1) ELSE out_path

DirectOutPath(files, base) ==
    IF PathJoin(Folder, base \o ".mp4") \in files
    THEN DirectCounter(files, base, 1)
    ELSE PathJoin(Folder, base \o ".mp4")

\* os.path.basename of a path in Folder
Basename(path) == SubSeq(path, Len(Folder) + 2, Len(path))

\* requests.head, the output name, Popen(ffmpeg)
DirectHead ==
    /\ pc = "d_head"
    /\ window # "closed"
    /\ \/ \E msg \in ProviderErrors :
            /\ Emit(<<ErrorSignal(msg)>>)
            /\ pc' = "done"
            /\ UNCHANGED out_file
       \/ \E cd \in ContentDispositions :
            /\ out_file' = DirectOutPath(fs, DirectBase(cd, url))
            /\ pc' = "d_loop"
            /\ UNCHANGED <<emitted, pause_log>>
    /\ UNCHANGED <<workerConfig, paused, cancelled, current_outtmpl, used_videasy_headers,
                   ydl_opts, info, in_retry, exc, callbacks, total_secs, fs, history,
                   guiVars>>
    /\ UNCHANGED aside

\* ffmpeg writes its output file
FfmpegWrite ==
    /\ pc = "d_loop"
    /\ window # "closed"
    /\ fs' = fs \cup {out_file}
    /\ wrote' = TRUE
    /\ UNCHANGED <<pc, workerConfig, paused, cancelled, current_outtmpl,
                   used_videasy_headers, ydl_opts, info, in_retry, exc, callbacks,
                   out_file, total_secs, emitted, pause_log, xfers, probes, cancel_abort, guiVars>>
    /\ UNCHANGED aside

\* the stderr lines of ffmpeg, by what the two parsers find in them
FfmpegLines ==
    [kind : {"duration"}, secs : DurationSecs, elapsed : {0}, size_kb : {0}]
    \cup [kind : {"progress"}, secs : {0}, elapsed : 0..MaxElapsed, size_kb : {1536}]
    \cup [kind : {"other"}, secs : {0}, elapsed : {0}, size_kb : {0}]

\* min(elapsed / total_secs * 100.0, 99.9), or -1 for an unknown total; then max(.., 0)
DirectPercent(total, elapsed) ==
    IF total # <<>> /\ total[1] > 0
    THEN RatMin(Rat(elapsed * 100, total[1]), Rat(999, 10))
    ELSE Rat(0, 1)

\* the human-readable size of a progress line
DirectSizeStr(size_kb) ==
    LET size_mb == Rat(size_kb, 1024)
    IN  IF ~RatLess(size_mb, Rat(1024, 1))
        THEN Fmt2(Rat(size_mb.n, size_mb.d * 1024)) \o " GB"
        ELSE Fmt1(size_mb) \o " MB"

\* one pass of the loop over proc.stderr
DirectLine ==
    /\ pc = "d_loop"
    /\ window # "closed"
    /\ callbacks < MaxCallbacks
    /\ callbacks' = callbacks + 1
    /\ IF cancelled
       THEN /\ cancel_abort' = TRUE
            /\ Emit(<<ErrorSignal("Cancelled")>>)
            /\ pc' = "done"
            /\ UNCHANGED total_secs
       ELSE \E line \in FfmpegLines :
            LET total == IF total_secs = <<>> /\ line.kind = "duration"
                         THEN <<line.secs>> ELSE total_secs
                size_str == DirectSizeStr(line.size_kb)
            IN  /\ total_secs' = total
                /\ IF line.kind = "progress"
                   THEN Emit(<<ProgressSignal(DirectPercent(total, line.elapsed),
                                              "Downloading (" \o size_str \o ")"),
                               SizeSignal(size_str)>>)
                   ELSE UNCHANGED <<emitted, pause_log>>
                /\ UNCHANGED <<pc, cancel_abort>>
    /\ UNCHANGED <<workerConfig, paused, cancelled, current_outtmpl, used_videasy_headers,
                   ydl_opts, info, in_retry, exc, out_file, fs, xfers, probes, wrote,
                   guiVars>>
    /\ UNCHANGED aside

\* the return codes ffmpeg is taken to exit with
ExitCodes == {0, 1}

\* ffmpeg exits: proc.wait(), the return code, the last signals of run()
DirectExit ==
    /\ pc = "d_loop"
    /\ window # "closed"
    /\ \E rc \in ExitCodes :
         IF rc # 0
         THEN /\ Emit(<<ErrorSignal("ffmpeg exited with code " \o ToString(rc))>>)
              /\ UNCHANGED <<fs, wrote>>
         ELSE /\ fs' = fs \cup {out_file}
              /\ wrote' = TRUE
              /\ Emit(<<ProgressSignal(Rat(100, 1), "Finished"),
                        TitleSignal(Basename(out_file)), FinishedSignal>>)
    /\ pc' = "done"
    /\ UNCHANGED <<workerConfig, paused, cancelled, current_outtmpl, used_videasy_headers,
                   ydl_opts, info, in_retry, exc, callbacks, out_file, total_secs, xfers,
                   probes, cancel_abort, guiVars>>
    /\ UNCHANGED aside

WorkerNext ==
    \/ RunStart
    \/ ProbeFirst
    \/ ProbeNoVideoRetry
    \/ Probe403Retry
    \/ YdlDownload
    \/ HookCheckCancel
    \/ HookWait
    \/ HookEmit
    \/ Cleanup
    \/ DirectHead
    \/ DirectLine

\* the steps of yt-dlp and ffmpeg
ProviderNext ==
    \/ ProviderWrite
    \/ ProviderCallback
    \/ ProviderSuccess
    \/ ProviderRaise
    \/ FfmpegWrite
    \/ DirectExit

\* ------------------------------------------------------------ MainWindow
\* the file stem the user confirms in the filename dialog
BaseNames == {"clip"}

\* the row start_download inserts
NewRow ==
    [title |-> "Loading metadata...", status |-> "Waiting", progress |-> "0%",
     size |-> "Unknown"]

\* start_download: the worker is built with forced_outtmpl = unique_filename(..),
\* its row is inserted and it is started
StartDownload ==
    /\ window = "open"
    /\ pc = "none"
    /\ \E u \in Urls, cm \in CachedMetadatas, base_name \in BaseNames :
         /\ url' = u
         /\ cached_metadata' = cm
         /\ forced_outtmpl' = unique_filename(fs, Folder, base_name, "mp4")
    /\ table' = Append(table, NewRow)
    /\ download_progress' = Rat(0, 1)
    /\ pc' = "start"
    /\ UNCHANGED <<paused, cancelled, current_outtmpl, used_videasy_headers, ydl_opts,
                   info, in_retry, exc, callbacks, out_file, total_secs, fs, emitted, pause_log,
                   history, overall, window, delivered>>
    /\ UNCHANGED aside

RECURSIVE OverallSum(_, _)
\* <<total_progress, count>> of update_overall_progress over rows r..
OverallSum(tbl, r) ==
    IF r > Len(tbl) THEN <<Rat(0, 1), 0>>
    ELSE LET rest == OverallSum(tbl, r + 1)
             status == Lower(tbl[r].status)
             progress == ParsePercentText(tbl[r].progress)
         IN  IF Contains("cancelled", status) \/ progress = NoneRec THEN rest
             ELSE <<RatAdd(rest[1], progress), rest[2] + 1>>

\* update_overall_progress: the value given to the overall progress bar
update_overall_progress(tbl) ==
    LET sum == OverallSum(tbl, 1)
    IN  IF sum[2] > 0 THEN IntOf(Rat(sum[1].n, sum[1].d * sum[2])) ELSE 0

\* update_download_row: the row's cells after a progress signal
update_download_row(tbl, row, progress, status) ==
    [tbl EXCEPT ![row].status = status, ![row].progress = Fmt2(progress) \o "%"]

\* download_finished: the row's cells
download_finished(tbl, row) == [tbl EXCEPT ![row].status = "Finished"]

\* download_error: the row's cells
download_error(tbl, row, err) == [tbl EXCEPT ![row].status = "Error: " \o err]

\* the GUI thread runs the slot connected to the next queued signal
DeliverSignal ==
    /\ window = "open"
    /\ delivered < Len(emitted)
    /\ delivered' = delivered + 1
    /\ LET e == emitted[delivered + 1]
           row == Len(table)
       IN  IF e.sig = "title"
           THEN /\ table' = [table EXCEPT ![row].title = e.text]
                /\ UNCHANGED <<download_progress, overall>>
           ELSE IF e.sig = "size"
           THEN /\ table' = [table EXCEPT ![row].size = e.text]
                /\ UNCHANGED <<download_progress, overall>>
           ELSE IF e.sig = "progress"
           THEN /\ download_progress' = e.percent
                /\ table' = update_download_row(table, row, e.percent, e.text)
                /\ overall' = update_overall_progress(table')
           ELSE IF e.sig = "finished"
           THEN /\ table' = download_finished(table, row)
                /\ download_progress' = Rat(100, 1)
                /\ overall' = update_overall_progress(table')
           ELSE /\ table' = download_error(table, row, e.text)
                /\ download_progress' = Rat(0, 1)
                /\ overall' = update_overall_progress(table')
    /\ UNCHANGED <<pc, workerConfig, paused, cancelled, current_outtmpl,
                   used_videasy_headers, ydl_opts, info, in_retry, exc, callbacks,
                   out_file, total_secs, fs, emitted, pause_log, history, window>>
    /\ UNCHANGED aside

\* show_context_menu, the Pause / Continue entry
ContextPause ==
    /\ window = "open"
    /\ Len(table) > 0
    /\ LET row == Len(table)
       IN  IF paused
           THEN /\ paused' = FALSE
                /\ table' = [table EXCEPT ![row].status = "Downloading"]
                /\ pause_log' = [pause_log EXCEPT !.events = 0]
           ELSE /\ paused' = TRUE
                /\ table' = [table EXCEPT ![row].status = "Paused"]
                /\ pause_log' = [pause_log EXCEPT !.events = 0, !.ever = @ \/ pause_log.on]
    /\ UNCHANGED <<pc, workerConfig, cancelled, current_outtmpl, used_videasy_headers,
                   ydl_opts, info, in_retry, exc, callbacks, out_file, total_secs, fs,
                   emitted, history, download_progress, overall, window, delivered>>
    /\ UNCHANGED aside

\* the files the Cancel entry removes
CancelTargets(outtmpl) == IF outtmpl # None THEN {outtmpl, Part(outtmpl)} ELSE {}

\* show_context_menu, the Cancel entry
ContextCancel ==
    /\ window = "open"
    /\ Len(table) > 0
    /\ cancelled' = TRUE
    /\ table' = [table EXCEPT ![Len(table)].status = "Cancelled"]
    /\ fs' = fs \ CancelTargets(current_outtmpl)
    /\ overall' = update_overall_progress(table')
    /\ UNCHANGED <<pc, workerConfig, paused, current_outtmpl, used_videasy_headers,
                   ydl_opts, info, in_retry, exc, callbacks, out_file, total_secs,
                   emitted, pause_log, history, download_progress, window, delivered>>
    /\ UNCHANGED aside

\* w.isRunning() and not w._cancelled
RunningWorker == pc \notin {"none", "done"} /\ ~cancelled

\* cleanup_download_folder: the "*.part" pattern
cleanup_download_folder(files) == {f \in files : ~EndsWith(f, ".part")}

\* closeEvent up to w.wait(3000): the question, the cancel of the running workers
CloseEvent ==
    /\ window = "open"
    /\ IF RunningWorker
       THEN \E reply \in {"Yes", "No"} :
              IF reply = "No"
              THEN UNCHANGED <<cancelled, window, fs>>
              ELSE /\ cancelled' = TRUE
                   /\ window' = "closing"
                   /\ UNCHANGED fs
       ELSE /\ fs' = cleanup_download_folder(fs)
            /\ window' = "closed"
            /\ UNCHANGED cancelled
    /\ UNCHANGED <<pc, workerConfig, paused, current_outtmpl, used_videasy_headers,
                   ydl_opts, info, in_retry, exc, callbacks, out_file, total_secs,
                   emitted, pause_log, history, table, download_progress, overall, delivered>>
    /\ UNCHANGED aside

\* closeEvent after the wait: folder clean-up, event.accept()
CloseCleanup ==
    /\ window = "closing"
    /\ fs' = cleanup_download_folder(fs)
    /\ window' = "closed"
    /\ UNCHANGED <<pc, workerConfig, paused, cancelled, current_outtmpl,
                   used_videasy_headers, ydl_opts, info, in_retry, exc, callbacks,
                   out_file, total_secs, emitted, pause_log, history, table, download_progress,
                   overall, delivered>>
    /\ UNCHANGED aside

\* the user's commands
UserNext ==
    \/ StartDownload
    \/ ContextPause
    \/ ContextCancel
    \/ CloseEvent

GuiNext ==
    \/ DeliverSignal
    \/ CloseCleanup

Next ==
    \/ WorkerNext
    \/ ProviderNext
    \/ UserNext
    \/ GuiNext

Spec == Init /\ [][Next]_vars

\* the same program, with the pause log kept
PauseLogSpec == PauseLogInit /\ [][Next]_vars

\* the worker, the provider and the user, without the slots of the GUI thread: a slot
\* writes table, download_progress, overall and delivered, which the worker, the
\* provider and the user's commands do not read
ThreadNext ==
    \/ WorkerNext
    \/ ProviderNext
    \/ UserNext
    \/ CloseCleanup

\* the worker thread with the cancel log kept
CancelLogSpec == CancelLogInit /\ [][ThreadNext]_vars

\* a queued signal waits for its slot: the enabling condition of DeliverSignal
SlotPending == window = "open" /\ delivered < Len(emitted)

\* the event loop runs the queued slots: weak fairness of DeliverSignal, written out
\* with its enabling condition
EventLoopFair == []<>(~SlotPending) \/ []<><<DeliverSignal>>_vars

\* the worker thread and the GUI event loop keep running; the provider keeps going
FairSpec ==
    /\ Spec
    /\ WF_vars(WorkerNext)
    /\ WF_vars(ProviderNext)
    /\ WF_vars(CloseCleanup)
    /\ EventLoopFair

\* ------------------------------------------------------------ properties
StartsWith(s, prefix) == Len(s) >= Len(prefix) /\ SubSeq(s, 1, Len(prefix)) = prefix

\* the phase a row's status cell presents
RowPhase(status) ==
    IF status = "Finished" THEN "Finished"
    ELSE IF status = "Cancelled" THEN "Cancelled"
    ELSE IF StartsWith(status, "Error: ") THEN "Errored"
    ELSE "Active"

HasRow == Len(table) > 0

TheRow == table[Len(table)]

TerminalIndexes == {i \in 1..Len(emitted) : emitted[i].sig \in {"finished", "error"}}

EmittedFinished == \E i \in 1..Len(emitted) : emitted[i].sig = "finished"

EmittedError == \E i \in 1..Len(emitted) : emitted[i].sig = "error"

\* the authorization-denied messages among ProviderErrors
AuthDeniedMessages == {"HTTP Error 403", "ERROR: Forbidden"}

Failed(result) == result \notin {"running", "ok"}

\* C1: a worker that is cancelled while its progress callback waits in the pause loop
\* leaves the loop and ends (its terminal signal emitted after the clean-up), unless
\* the user resumes it or the application quits first.
C1_CancelWhilePausedEnds ==
    (pc = "hook_wait" /\ paused /\ cancelled)
        ~> (pc = "done" \/ ~paused \/ window = "closed")

\* C2: when run() has ended with the error signal after the provider wrote output,
\* neither the file the provider wrote nor its ".part" sibling exists.
C2_NoArtifactAfterFailure ==
    (pc = "done" /\ wrote /\ EmittedError)
        => (out_file \notin fs /\ Part(out_file) \notin fs)

\* C3: a signal delivered to a row whose status is Finished, Cancelled or an error
\* changes neither the row's status nor its progress.
C3_TerminalRowIgnoresSignals ==
    [][(HasRow /\ RowPhase(TheRow.status) # "Active" /\ DeliverSignal)
          => /\ table'[Len(table)].status = TheRow.status
             /\ table'[Len(table)].progress = TheRow.progress
             /\ download_progress' = download_progress]_vars

\* C4: at most two transfer calls are made; the second only after the first failed
\* with an authorization-denied message while the latch was false, and with the
\* fallback headers; when it fails too the run goes to the clean-up and ends with the
\* error signal.
C4_TransferAtMostTwice ==
    /\ Len(xfers) <= 2
    /\ Len(xfers) = 2 =>
         /\ xfers[1].result \in AuthDeniedMessages
         /\ ~xfers[1].used
         /\ xfers[2].headers
         /\ Failed(xfers[2].result) =>
              /\ pc \in {"cleanup", "done"}
              /\ pc = "done" => emitted[Len(emitted)].sig = "error"

C4_Witness ==
    /\ pc = "done"
    /\ Len(xfers) = 2
    /\ xfers[2].result \in AuthDeniedMessages
    /\ emitted[Len(emitted)].sig = "error"

\* a probe failed once with an authorization-denied message and its retry succeeded
RetriedProbe ==
    /\ Len(probes) = 2
    /\ probes[1].result \in AuthDeniedMessages
    /\ probes[2].result = "ok"

\* a transfer failed once with an authorization-denied message and its retry succeeded
RetriedTransfer ==
    /\ Len(xfers) = 2
    /\ xfers[1].result \in AuthDeniedMessages
    /\ xfers[2].result = "ok"

\* C5: a run that ended with the finished signal after one authorization-denied
\* failure, of the probe or of the transfer, has the latch set.
C5_RetrySetsLatch ==
    (pc = "done" /\ EmittedFinished /\ (RetriedProbe \/ RetriedTransfer))
        => used_videasy_headers

\* the task is terminal: run() returned, its signals are handled, the row says so
TaskTerminal ==
    /\ pc = "done"
    /\ delivered = Len(emitted)
    /\ HasRow
    /\ RowPhase(TheRow.status) \in {"Finished", "Errored"}

\* C6: Pause / Continue and Cancel on a terminal task change neither the row, nor the
\* recorded progress, nor the files.
C6_CommandsOnTerminalAreNoOps ==
    [][(TaskTerminal /\ (ContextPause \/ ContextCancel))
          => UNCHANGED <<table, download_progress, overall, fs>>]_vars

\* C7: a run aborted by the cancel flag emits no error signal, and its row never
\* shows an error.
C7_CancelIsNotAnError ==
    cancel_abort => (~EmittedError /\ RowPhase(TheRow.status) # "Errored")

\* C8: once a run aborted by the cancel flag has ended, neither the file the provider
\* wrote nor its ".part" sibling exists.
C8_CancelRemovesArtifacts ==
    (pc = "done" /\ cancel_abort)
        => (out_file \notin fs /\ Part(out_file) \notin fs)

\* C9: at most one terminal signal is ever emitted, nothing follows it, and a run that
\* has returned has emitted exactly one.
C9_OneTerminalSignal ==
    /\ Cardinality(TerminalIndexes) <= 1
    /\ TerminalIndexes \subseteq {Len(emitted)}
    /\ pc = "done" <=> Cardinality(TerminalIndexes) = 1

C9_Witness ==
    /\ pc = "done"
    /\ Len(xfers) = 2
    /\ xfers[2].result = "ok"
    /\ emitted[Len(emitted)].sig = "finished"

\* the finished signal was the last one the GUI handled
FinishedHandled == delivered > 0 /\ emitted[delivered].sig = "finished"

\* C10: when the finished signal has been handled, the row's recorded progress is 100
\* and the progress cell, which the overall progress reads, says 100.
C10_FinishedIsHundred ==
    (FinishedHandled /\ TheRow.status = "Finished")
        => /\ download_progress = Rat(100, 1)
           /\ ParsePercentText(TheRow.progress) = Rat(100, 1)

\* the progress signals emitted so far, in order
ProgressIndexes == {i \in 1..Len(emitted) : emitted[i].sig = "progress"}

InPercentRange(p) == ~RatLess(p, Rat(0, 1)) /\ ~RatLess(Rat(100, 1), p)

\* C11: every progress signal progress_hook has emitted carries a percent between 0
\* and 100.
C11_HookPercentInRange ==
    (pc # "none" /\ ~IsDirectDownloadUrl(url))
        => \A i \in ProgressIndexes : InPercentRange(emitted[i].percent)

\* a run of the provider path in one Downloading phase: no pause(), no cancel(), no
\* retry of the probe or of the transfer
Uninterrupted ==
    /\ pc # "none"
    /\ ~IsDirectDownloadUrl(url)
    /\ pause_log.on /\ ~pause_log.ever
    /\ ~cancelled
    /\ Len(probes) <= 1 /\ Len(xfers) <= 1

\* C12: in a run that was never paused, cancelled or retried, the percents of the
\* progress signals emitted so far never decrease, and once the finished signal is
\* emitted a progress signal of 100 percent was emitted before it.
C12_ProgressMonotoneTo100 ==
    Uninterrupted
        => /\ \A i, j \in ProgressIndexes :
                  i < j => ~RatLess(emitted[j].percent, emitted[i].percent)
           /\ \A k \in 1..Len(emitted) :
                  emitted[k].sig = "finished"
                      => \E i \in ProgressIndexes :
                             i < k /\ emitted[i].percent = Rat(100, 1)

\* the mean, truncated, of the progress recorded for the rows whose phase is not
\* Cancelled (the registry has at most one row here)
MeanOfRecorded ==
    IF HasRow /\ RowPhase(TheRow.status) # "Cancelled" THEN IntOf(download_progress) ELSE 0

\* C13: what update_overall_progress computes from the table is the truncated mean of
\* the progress recorded for the rows that are not Cancelled, Errored and Finished
\* rows included, and 0 when there is no such row.
C13_OverallIsMeanOfRecorded == update_overall_progress(table) = MeanOfRecorded

\* C14: while a pause is in force and the task is not cancelled, the worker has emitted
\* at most one progress signal since pause() was called, on either download path.
C14_ProgressFreezesWhilePaused ==
    (pause_log.on /\ paused /\ ~cancelled) => pause_log.events <= 1

\* ------------------------------------------------------------ MetadataWorker
\* what extract_info returns to the MetadataWorker: title, thumbnail URL ("": none),
\* size in bytes (0: neither filesize nor filesize_approx)
MetaInfos ==
    [title : {"clip", ""}, thumbnail : {"", "https://i/1.jpg"}, filesize : {0, 1536}]

\* the event the MetadataWorker emits when the probe succeeded
MetadataSignal(title, pixmap, filesize_str) ==
    [sig |-> "metadata", text |-> "",
     payload |-> [title |-> title, thumbnail |-> pixmap, filesize |-> filesize_str]]

\* the event the MetadataWorker emits when the probe failed
MetaErrorSignal(msg) == [sig |-> "error", text |-> msg, payload |-> NoneRec]

\* a retry condition that does not look at the message
MetaRetryAlways(msg) == TRUE

\* the condition of the MetadataWorker's retry: "403" or "forbidden" in str(e).lower()
MetaRetry(msg) == Contains("403", Lower(msg)) \/ Contains("forbidden", Lower(msg))

\* MainWindow starts a MetadataWorker for a URL
MetaStart ==
    /\ meta.pc = "none"
    /\ \E u \in Urls : meta' = [meta EXCEPT !.pc = "extract", !.url = u]
    /\ UNCHANGED <<pc, workerConfig, paused, cancelled, current_outtmpl, used_videasy_headers,
                   ydl_opts, info, in_retry, exc, callbacks, out_file, total_secs, fs,
                   emitted, pause_log, history, guiVars, call, win>>

\* run(): _extract(ydl_opts) returns the info or raises
MetaExtract ==
    /\ meta.pc = "extract"
    /\ \/ \E i \in MetaInfos :
              meta' = [meta EXCEPT !.pc = "info", !.info = i,
                                   !.probes = Append(@, [headers |-> NoneRec,
                                                         result |-> "ok"])]
       \/ \E msg \in ProviderErrors :
              meta' = [meta EXCEPT !.pc = "except", !.exc = msg,
                                   !.probes = Append(@, [headers |-> NoneRec,
                                                         result |-> msg])]
    /\ UNCHANGED <<pc, workerConfig, paused, cancelled, current_outtmpl, used_videasy_headers,
                   ydl_opts, info, in_retry, exc, callbacks, out_file, total_secs, fs,
                   emitted, pause_log, history, guiVars, call, win>>

\* run(): the except branch of the first probe
MetaExcept ==
    /\ meta.pc = "except"
    /\ IF MetaRetry(meta.exc)
       THEN meta' = [meta EXCEPT !.pc = "retry"]
       ELSE meta' = [meta EXCEPT !.pc = "done",
                                 !.signals = Append(@, MetaErrorSignal(meta.exc))]
    /\ UNCHANGED <<pc, workerConfig, paused, cancelled, current_outtmpl, used_videasy_headers,
                   ydl_opts, info, in_retry, exc, callbacks, out_file, total_secs, fs,
                   emitted, pause_log, history, guiVars, call, win>>

\* run(): _extract(ydl_opts_with_headers); its failure ends run() with the error event
MetaRetryExtract ==
    /\ meta.pc = "retry"
    /\ \/ \E i \in MetaInfos :
              meta' = [meta EXCEPT !.pc = "info", !.info = i,
                                   !.probes = Append(@, [headers |-> VideasyHeaders,
                                                         result |-> "ok"])]
       \/ \E e2 \in ProviderErrors :
              meta' = [meta EXCEPT !.pc = "done", !.exc = e2,
                                   !.probes = Append(@, [headers |-> VideasyHeaders,
                                                         result |-> e2]),
                                   !.signals = Append(@, MetaErrorSignal(e2))]
    /\ UNCHANGED <<pc, workerConfig, paused, cancelled, current_outtmpl, used_videasy_headers,
                   ydl_opts, info, in_retry, exc, callbacks, out_file, total_secs, fs,
                   emitted, pause_log, history, guiVars, call, win>>

\* run(): the thumbnail is fetched when the info names one; a failed fetch leaves None
MetaThumbnail ==
    /\ meta.pc = "info"
    /\ IF meta.info.thumbnail # ""
       THEN \E fetched \in {"pixmap", None} :
                meta' = [meta EXCEPT !.pc = "emit", !.pixmap = fetched]
       ELSE meta' = [meta EXCEPT !.pc = "emit"]
    /\ UNCHANGED <<pc, workerConfig, paused, cancelled, current_outtmpl, used_videasy_headers,
                   ydl_opts, info, in_retry, exc, callbacks, out_file, total_secs, fs,
                   emitted, pause_log, history, guiVars, call, win>>

\* run(): metadata_signal.emit
MetaEmit ==
    /\ meta.pc = "emit"
    /\ meta' = [meta EXCEPT
                  !.pc = "done",
                  !.signals = Append(@, MetadataSignal(meta.info.title, meta.pixmap,
                                                       FilesizeStr(meta.info.filesize)))]
    /\ UNCHANGED <<pc, workerConfig, paused, cancelled, current_outtmpl, used_videasy_headers,
                   ydl_opts, info, in_retry, exc, callbacks, out_file, total_secs, fs,
                   emitted, pause_log, history, guiVars, call, win>>

MetaNext ==
    \/ MetaStart
    \/ MetaExtract
    \/ MetaExcept
    \/ MetaRetryExtract
    \/ MetaThumbnail
    \/ MetaEmit

\* a MetadataWorker on its own
MetaSpec == Init /\ [][MetaNext]_vars

\* C15: the MetadataWorker probes at most twice; a second probe is made exactly when
\* the first failed with a message that holds "403" or "forbidden" in any case, and it
\* carries the fallback headers; a run that has ended emitted exactly one event, the
\* metadata event if its last probe succeeded and otherwise the error event with that
\* probe's message.
C15_MetadataProbeAndEvent ==
    LET n == Len(meta.probes)
        denied(msg) == msg \in AuthDeniedMessages
    IN  /\ n <= 2
        /\ n >= 1 => meta.probes[1].headers = NoneRec
        /\ n = 2 => /\ meta.probes[1].result # "ok"
                    /\ denied(meta.probes[1].result)
                    /\ meta.probes[2].headers = VideasyHeaders
        /\ Len(meta.signals) <= 1
        /\ meta.pc # "done" => meta.signals = <<>>
        /\ meta.pc = "done"
              => /\ Len(meta.signals) = 1
                 /\ n >= 1
                 /\ (n = 1 /\ meta.probes[1].result # "ok")
                       => ~denied(meta.probes[1].result)
                 /\ IF meta.probes[n].result = "ok"
                    THEN meta.signals[1].sig = "metadata"
                    ELSE meta.signals[1] = MetaErrorSignal(meta.probes[n].result)

\* C15 witness: a run ended after two probes, the first denied and the retry failed
\* with another message, which the error event carries.
C15_Witness ==
    /\ meta.pc = "done"
    /\ Len(meta.probes) = 2
    /\ meta.probes[2].result \notin {"ok", meta.probes[1].result}
    /\ meta.signals = <<MetaErrorSignal(meta.probes[2].result)>>

\* ------------------------------------------------------------ build_ydl_opts, called
\* the entries of the format combo box of start_download, and one that is none of them
Fmts == {"mp4 (with Audio)", "mp4 (without Audio)", "avi", "mkv", "mp3", "webm"}

\* the fmt values the branches of build_ydl_opts name
TableFmts == Fmts \ {"webm"}

\* video_quality: entries of the quality combo box, None for an audio download
Qualities == {"best", "1080", "720", None}

\* audio_bitrate: entries of the audio combo box, None for a video-only download
Bitrates == {"320", "128", None}

\* net_config: what load_or_create_config writes for a speed, and configs that lack
\* one key or both
NetConfigs ==
    {NetConfig,
     [concurrent_fragment_downloads |-> "10", http_chunk_size |-> "4194304"],
     [concurrent_fragment_downloads |-> "10"],
     [http_chunk_size |-> "4194304"],
     [download_folder |-> Folder]}

\* the calls of build_ydl_opts, not yet made
OptsCalls ==
    [fn : {"build_ydl_opts"}, fmt : Fmts, video_quality : Qualities,
     audio_bitrate : Bitrates, net_config : NetConfigs, returned : {FALSE},
     result : {NoneRec}, probed : {FALSE}, has_video : {FALSE}, bundle : {NoneRec}]

OptsInit == Constructed /\ pause_log = NoPauseLog /\ call \in OptsCalls

\* the call, made with the quality and the bitrate in each other's place
BuildOptsSwapped ==
    /\ call.fn = "build_ydl_opts"
    /\ ~call.returned
    /\ call' = [call EXCEPT
                  !.returned = TRUE,
                  !.result = build_ydl_opts(call.fmt, call.audio_bitrate,
                                            call.video_quality, call.net_config)]
    /\ UNCHANGED <<pc, workerConfig, paused, cancelled, current_outtmpl, used_videasy_headers,
                   ydl_opts, info, in_retry, exc, callbacks, out_file, total_secs, fs,
                   emitted, pause_log, history, guiVars, meta, win>>

\* the call is made
BuildOpts ==
    /\ call.fn = "build_ydl_opts"
    /\ ~call.returned
    /\ call' = [call EXCEPT
                  !.returned = TRUE,
                  !.result = build_ydl_opts(call.fmt, call.video_quality,
                                            call.audio_bitrate, call.net_config)]
    /\ UNCHANGED <<pc, workerConfig, paused, cancelled, current_outtmpl, used_videasy_headers,
                   ydl_opts, info, in_retry, exc, callbacks, out_file, total_secs, fs,
                   emitted, pause_log, history, guiVars, meta, win>>

\* run() with the bundle after a probe that succeeded: the single-file fallback when
\* no format has a video codec
ProbeRelax ==
    /\ call.fn = "build_ydl_opts"
    /\ call.returned /\ ~call.probed
    /\ \E has_video \in BOOLEAN :
          call' = [call EXCEPT
                     !.probed = TRUE,
                     !.has_video = has_video,
                     !.bundle = IF has_video THEN call.result ELSE SingleFile(call.result)]
    /\ UNCHANGED <<pc, workerConfig, paused, cancelled, current_outtmpl, used_videasy_headers,
                   ydl_opts, info, in_retry, exc, callbacks, out_file, total_secs, fs,
                   emitted, pause_log, history, guiVars, meta, win>>

OptsNext == BuildOpts \/ ProbeRelax

\* build_ydl_opts and what run() does to its bundle, on their own
OptsSpec == OptsInit /\ [][OptsNext]_vars

OptsReturned == call.fn = "build_ydl_opts" /\ call.returned

CopyCodecs == <<"-c", "copy">>

\* C16: for every fmt of the table the bundle has a non-empty format selector, and:
\* mp4 with the copy-codecs merge for the two mp4 kinds; the container avi or mkv with
\* the copy-codecs merge for avi and mkv; for mp3 no merge container and the
\* extract-audio-to-mp3 postprocessor at the given bitrate.
C16_BundleAsTabulated ==
    (OptsReturned /\ call.fmt \in TableFmts)
        => /\ call.result.format # ""
           /\ call.fmt \in {"mp4 (with Audio)", "mp4 (without Audio)"}
                 => /\ call.result.merge_output_format = "mp4"
                    /\ call.result.postprocessor_args = CopyCodecs
                    /\ call.result.postprocessors = NoneRec
           /\ call.fmt \in {"avi", "mkv"}
                 => /\ call.result.merge_output_format = call.fmt
                    /\ call.result.postprocessor_args = CopyCodecs
                    /\ call.result.postprocessors = NoneRec
           /\ call.fmt = "mp3"
                 => /\ call.result.merge_output_format = None
                    /\ call.result.postprocessor_args = <<>>
                    /\ call.result.postprocessors =
                           [key |-> "FFmpegExtractAudio", preferredcodec |-> "mp3",
                            preferredquality |-> call.audio_bitrate]

\* C17: for a fmt that is not in the table the bundle is the one of "mp4 (with Audio)"
\* for the same quality, bitrate and net_config.
C17_UnknownFmtIsVideoWithAudio ==
    (OptsReturned /\ call.fmt \notin TableFmts)
        => call.result = build_ydl_opts("mp4 (with Audio)", call.video_quality,
                                        call.audio_bitrate, call.net_config)

\* C18: a net_config that lacks concurrent_fragment_downloads gives 5, one that lacks
\* http_chunk_size gives 2097152; a key that is there gives its value.
C18_TuningDefaults ==
    OptsReturned
        => /\ call.result.concurrent_fragment_downloads =
                  IF "concurrent_fragment_downloads" \in DOMAIN call.net_config
                  THEN ParseNat(call.net_config.concurrent_fragment_downloads, 0)
                  ELSE 5
           /\ call.result.http_chunk_size =
                  IF "http_chunk_size" \in DOMAIN call.net_config
                  THEN ParseNat(call.net_config.http_chunk_size, 0)
                  ELSE 2097152

\* ------------------------------------------------------------ sanitize_filename, called
\* longest of the short names sanitize_filename is given
MaxNameLen == 3

\* the characters of the short names: a letter, two kinds of whitespace, an invalid
\* character
NameAlphabet == {"a", " ", "\t", "/"}

RECURSIVE StringsUpTo(_)
\* the strings over NameAlphabet of length n or less
StringsUpTo(n) ==
    IF n = 0 THEN {""}
    ELSE LET shorter == StringsUpTo(n - 1)
         IN  shorter \cup {s \o c : s \in shorter, c \in NameAlphabet}

RECURSIVE Repeat(_, _)
\* s written n times
Repeat(s, n) ==
    IF n = 0 THEN ""
    ELSE LET half == Repeat(s, n \div 2)
         IN  half \o half \o (IF n % 2 = 1 THEN s ELSE "")

\* names longer than max_length: one cut after a space, one cut inside a word, one of
\* whitespace only
LongNames ==
    {Repeat("a", DefaultMaxLength - 1) \o " b",
     Repeat("a/", DefaultMaxLength),
     Repeat(" ", DefaultMaxLength + 1)}

\* a name of every invalid character, and one with every kind of whitespace at its
\* ends and in runs inside
SpecialNames == {InvalidFnChars, "\n a \r\f b\t\t"}

Names == StringsUpTo(MaxNameLen) \cup LongNames \cup SpecialNames

\* the calls of sanitize_filename, not yet made; results: what the successive
\* applications returned
NameCalls == [fn : {"sanitize_filename"}, name : Names, results : {<<>>}]

NameInit == Constructed /\ pause_log = NoPauseLog /\ call \in NameCalls

\* sanitize_filename is applied to the name, and then to what it returned
Sanitize ==
    /\ call.fn = "sanitize_filename"
    /\ Len(call.results) < 2
    /\ LET arg == IF call.results = <<>> THEN call.name
                  ELSE call.results[Len(call.results)]
       IN  call' = [call EXCEPT
                      !.results = Append(@, sanitize_filename(arg, DefaultMaxLength))]
    /\ UNCHANGED <<pc, workerConfig, paused, cancelled, current_outtmpl, used_videasy_headers,
                   ydl_opts, info, in_retry, exc, callbacks, out_file, total_secs, fs,
                   emitted, pause_log, history, guiVars, meta, win>>

\* sanitize_filename on its own
NameSpec == NameInit /\ [][Sanitize]_vars

\* C19: sanitize_filename applied to its own result returns that result.
C19_SanitizeIdempotent ==
    (call.fn = "sanitize_filename" /\ Len(call.results) = 2)
        => call.results[2] = call.results[1]

\* every character of s is whitespace (so is the empty string)
WhitespaceOnly(s) == \A i \in 1..Len(s) : IsIn(SubSeq(s, i, i), WhitespaceChars)

\* C20: sanitize_filename returns "download" for the empty string and for a name of
\* whitespace only, and never returns the empty string.
C20_FallbackForEmpty ==
    (call.fn = "sanitize_filename" /\ Len(call.results) >= 1)
        => /\ WhitespaceOnly(call.name) => call.results[1] = "download"
           /\ call.results[1] # ""

\* ------------------------------------------------------------ unique_filename, called
\* largest n of the names "a (n)" a folder holds
MaxCopies == 2

\* base_name: a plain one, and one that sanitize_filename changes
UniqBases == {"a", "a:b"}

\* ext: with and without the leading dot, and none
UniqExts == {"mp4", ".mp4", ""}

\* the k-th name of the sequence base.ext, base (1).ext, base (2).ext, ...
NthName(base, ext, k) ==
    (IF k = 0 THEN base ELSE base \o " (" \o ToString(k) \o ")")
        \o (IF ext = "" THEN "" ELSE "." \o ext)

\* the paths a folder may hold: names of the sequence for base "a", with and without
\* the extension, and one for the other base
UniqPaths ==
    {PathJoin(Folder, NthName("a", e, k)) : e \in {"mp4", ""}, k \in 0..MaxCopies}
        \cup {PathJoin(Folder, "a_b.mp4")}

\* the calls of unique_filename, not yet made; files: what exists at call time
UniqCalls ==
    [fn : {"unique_filename"}, files : SUBSET UniqPaths, base_name : UniqBases,
     ext : UniqExts, returned : {FALSE}, result : {None}]

UniqInit == Constructed /\ pause_log = NoPauseLog /\ call \in UniqCalls

\* the call is made
Unique ==
    /\ call.fn = "unique_filename"
    /\ ~call.returned
    /\ call' = [call EXCEPT
                  !.returned = TRUE,
                  !.result = unique_filename(call.files, Folder, call.base_name, call.ext)]
    /\ UNCHANGED <<pc, workerConfig, paused, cancelled, current_outtmpl, used_videasy_headers,
                   ydl_opts, info, in_retry, exc, callbacks, out_file, total_secs, fs,
                   emitted, pause_log, history, guiVars, meta, win>>

\* unique_filename on its own
UniqSpec == UniqInit /\ [][Unique]_vars

UniqReturned == call.fn = "unique_filename" /\ call.returned

\* the sequence a call goes through: the sanitized base, the extension without dots
CallName(k) ==
    PathJoin(Folder, NthName(sanitize_filename(call.base_name, DefaultMaxLength),
                             LStripDots(call.ext), k))

\* C21: what unique_filename returns does not exist at call time and is the first
\* name of the sequence base.ext, base (1).ext, ... that does not, found within as
\* many steps as the folder has files; with a.mp4 and "a (1).mp4" there and
\* "a (2).mp4" not, it is "a (2).mp4".
C21_UniqueIsFirstFree ==
    UniqReturned
        => /\ call.result \notin call.files
           /\ \E k \in 0..(Cardinality(call.files)) :
                  /\ call.result = CallName(k)
                  /\ \A j \in 0..(k - 1) : CallName(j) \in call.files
           /\ ( /\ call.base_name = "a"
                /\ call.ext = "mp4"
                /\ {"dl/a.mp4", "dl/a (1).mp4"} \subseteq call.files
                /\ "dl/a (2).mp4" \notin call.files )
                 => call.result = "dl/a (2).mp4"

\* C21 witness: a call with a.mp4 and "a (1).mp4" in the folder has returned
\* "a (2).mp4".
C21_Witness ==
    /\ UniqReturned
    /\ {"dl/a.mp4", "dl/a (1).mp4"} \subseteq call.files
    /\ call.result = "dl/a (2).mp4"

\* ------------------------------------------------------------ more of the worker
\* C23: a transfer that starts with the latch set is given the fallback headers, and
\* a transfer without them that failed with an authorization-denied message, the
\* task not cancelled, is followed by a second one that has them.
C23_LatchMeansHeaders ==
    /\ \A i \in 1..Len(xfers) : xfers[i].used => xfers[i].headers
    /\ (pc = "done" /\ ~cancelled /\ Len(xfers) >= 1
          /\ ~xfers[1].headers /\ xfers[1].result \in AuthDeniedMessages)
            => (Len(xfers) = 2 /\ xfers[2].headers)

ExtractAudio(bitrate) ==
    [key |-> "FFmpegExtractAudio", preferredcodec |-> "mp3", preferredquality |-> bitrate]

\* C25: after the probe, a bundle for mp3 still selects "bestaudio" and extracts the
\* audio; a bundle for a fmt with video is relaxed to "best", without merge container
\* and post-processing, when the probe shows no video, and is left as built when it
\* shows one.
C25_RelaxOnlyVideoKinds ==
    (call.fn = "build_ydl_opts" /\ call.probed)
        => /\ call.fmt = "mp3"
                 => /\ call.bundle.format = "bestaudio"
                    /\ call.bundle.postprocessors = ExtractAudio(call.audio_bitrate)
           /\ (call.fmt # "mp3" /\ ~call.has_video)
                 => /\ call.bundle.format = "best"
                    /\ call.bundle.merge_output_format = None
                    /\ call.bundle.postprocessor_args = <<>>
                    /\ call.bundle.postprocessors = NoneRec
           /\ (call.fmt # "mp3" /\ call.has_video) => call.bundle = call.result

\* the alternatives of a format selector: what is before and after its first "/"
Alternatives(format) ==
    LET slashes == {i \in 1..Len(format) : SubSeq(format, i, i) = "/"}
        first == CHOOSE i \in slashes : \A j \in slashes : i <= j
    IN  IF slashes = {} THEN <<format>>
        ELSE <<SubSeq(format, 1, first - 1), SubSeq(format, first + 1, Len(format))>>

\* C28: for "mp4 (with Audio)", avi and mkv the selector has the video+audio
\* alternative and the single-file alternative; with quality "best" or None neither
\* holds a height constraint, with a quality H both hold "[height<=H]".
C28_CeilingBoundsBothBranches ==
    (OptsReturned /\ call.fmt \in {"mp4 (with Audio)", "avi", "mkv"})
        => LET alt == Alternatives(call.result.format)
           IN  /\ Len(alt) = 2
               /\ StartsWith(alt[1], "bestvideo") /\ Contains("+bestaudio", alt[1])
               /\ StartsWith(alt[2], "best")
               /\ \A i \in 1..2 :
                      IF call.video_quality \in {"best", None}
                      THEN ~Contains("height", alt[i])
                      ELSE Contains("[height<=" \o call.video_quality \o "]", alt[i])

\* C28 witness: a bundle was built for avi with the quality 720.
C28_Witness == OptsReturned /\ call.fmt = "avi" /\ call.video_quality = "720"

C29_EventsOrderedAsPhases ==
    /\ \A p \in ProgressIndexes :
           \E t \in 1..Len(emitted) : emitted[t].sig = "title" /\ t < p
    /\ \A e \in TerminalIndexes : e = Len(emitted)

\* C30: a worker that was given cached metadata makes no probe call, and the title
\* and size signals it emits carry the cached title and size.
C30_CacheSkipsProbe ==
    (pc # "none" /\ cached_metadata # NoneRec)
        => /\ probes = <<>>
           /\ \A i \in 1..Len(emitted) :
                  /\ emitted[i].sig = "title" => emitted[i].text = cached_metadata.title
                  /\ emitted[i].sig = "size" => emitted[i].text = cached_metadata.filesize

\* ------------------------------------------------------------ MainWindow: the URL field,
\* the metadata cache, start_download
\* most changes of the URL field
MaxEdits == 2

\* most DownloadWorkers started
MaxTasks == 2

\* what the URL field may hold
UrlTexts == {"", "https://h/a.mp4", " https://h/b"}

\* what the folder field may hold: nothing, a directory that exists, one that
\* os.makedirs can create, one it cannot
FolderTexts == {"", Folder, "new", "bad"}

\* the directories os.makedirs can create
CreatableDirs == {"new"}

\* what the user may type in the filename dialog
DialogTexts == {"", "a"}

\* the extensions start_download derives from format_combo
DefaultExts == {"mp4", "mp3"}

\* os.path.basename(url)
UrlBasename(s) ==
    LET slashes == {i \in 1..Len(s) : SubSeq(s, i, i) = "/"}
    IN  IF slashes = {} THEN s
        ELSE SubSeq(s, (CHOOSE i \in slashes : \A j \in slashes : j <= i) + 1, Len(s))

\* the metadata a MetadataWorker emits for a URL: the title is the URL's own
MetadataOf(u) == [title |-> "About " \o UrlBasename(u), filesize |-> "Unknown"]

\* a sequence without its i-th element
RemoveAt(seq, i) == SubSeq(seq, 1, i - 1) \o SubSeq(seq, i + 1, Len(seq))

\* the window takes input: no dialog of its own is open and it was not closed
Interactive == win.dialog = NoneRec /\ win.close.state = "open"

\* the variables of the download that MainWindow's input handlers leave alone
download ==
    <<pc, workerConfig, paused, cancelled, current_outtmpl, used_videasy_headers, ydl_opts,
      info, in_retry, exc, callbacks, out_file, total_secs, fs, emitted, pause_log, history,
      guiVars, meta, call>>

\* the user changes the URL field (not while the filename dialog is open: it is modal)
on_url_changed ==
    /\ Interactive
    /\ win.edits < MaxEdits
    /\ \E text \in UrlTexts \ {win.url_edit} :
         LET u == Strip(text)
             typed == [win EXCEPT !.url_edit = text, !.edits = @ + 1]
         IN  win' = IF u = "" THEN [typed EXCEPT !.download_button = FALSE]
                    ELSE IF u = win.last_url THEN typed
                    ELSE [typed EXCEPT !.last_url = u,
                                       !.download_button = FALSE,
                                       !.workers = Append(@, u)]
    /\ UNCHANGED download

\* the user changes the folder field
FolderEdited ==
    /\ Interactive
    /\ \E text \in FolderTexts \ {win.folder_edit} :
         win' = [win EXCEPT !.folder_edit = text]
    /\ UNCHANGED download

\* the slot of a MetadataWorker's metadata_signal: any of the workers started may be
\* the one that emits
on_metadata_received ==
    /\ win.close.state # "closed"
    /\ \E i \in 1..Len(win.workers) :
         LET current_url == Strip(win.url_edit)
             metadata == MetadataOf(win.workers[i])
             done == [win EXCEPT !.workers = RemoveAt(@, i), !.download_button = TRUE]
         IN  win' = IF current_url # ""
                    THEN [done EXCEPT !.cached_url = current_url,
                                      !.cached_metadata = metadata,
                                      !.cached_from = win.workers[i]]
                    ELSE done
    /\ UNCHANGED download

\* the slot of a MetadataWorker's error_signal
on_metadata_error ==
    /\ win.close.state # "closed"
    /\ \E i \in 1..Len(win.workers) :
         win' = [win EXCEPT !.workers = RemoveAt(@, i), !.download_button = FALSE]
    /\ UNCHANGED download

\* start_download up to the filename dialog: the button was clicked; an empty URL or
\* folder ends it with a message box, otherwise the dialog opens with the suggestion
start_download ==
    /\ win.download_button
    /\ Interactive
    /\ Len(win.tasks) < MaxTasks
    /\ LET u == Strip(win.url_edit)
           folder == Strip(win.folder_edit)
       IN  IF u = "" \/ folder = ""
           THEN win' = win
           ELSE \E default_ext \in DefaultExts :
                  LET title == IF win.cached_url = u /\ win.cached_metadata # NoneRec
                               THEN win.cached_metadata.title
                               ELSE IF SplitExtStem(UrlBasename(u)) # ""
                                    THEN SplitExtStem(UrlBasename(u))
                                    ELSE "download"
                      suggested == sanitize_filename(title, DefaultMaxLength)
                  IN  win' = [win EXCEPT !.dialog = [url |-> u, folder |-> folder,
                                                     default_ext |-> default_ext,
                                                     suggested |-> suggested]]
    /\ UNCHANGED download

\* the folder unique_filename ends up with: the one asked for if it is a directory or
\* os.makedirs creates it, else os.getcwd()
ResolveFolder(dirs, folder) ==
    IF folder \in dirs \/ folder \in CreatableDirs THEN folder ELSE Cwd

\* a row index taken after insertRow instead of before it
RowAfterInsert(rows) == IF rows = 0 THEN 0 ELSE rows - 1

\* row = self.download_table.rowCount(), taken before insertRow(row)
NewRowIndex(rows) == rows

\* d[key] = value on a dict
DictSet(d, key, value) ==
    [k \in DOMAIN d \cup {key} |-> IF k = key THEN value ELSE d[k]]

\* the rest of start_download: the dialog is answered; on OK the output path is
\* resolved, the DownloadWorker is built and started, its row is inserted and the URL
\* field is cleared, which on_url_changed answers by disabling the button.
\* usable, seen, cached_from and row of a task are history: whether its folder was or
\* became a directory, the files that existed, the URL its metadata was probed for,
\* the row it was registered under
FilenameDialog ==
    /\ win.dialog # NoneRec
    /\ \E ok \in BOOLEAN, text \in DialogTexts :
         LET d == win.dialog
             base_name == IF Strip(text) = "" THEN d.suggested ELSE Strip(text)
             dir == ResolveFolder(win.dirs, d.folder)
             final_fullpath == unique_filename(win.files, dir, base_name, d.default_ext)
             hit == win.cached_url = d.url
             worker == [url |-> d.url, folder |-> d.folder,
                        cached_metadata |-> IF hit THEN win.cached_metadata ELSE NoneRec,
                        cached_from |-> IF hit THEN win.cached_from ELSE None,
                        forced_outtmpl |-> final_fullpath,
                        usable |-> dir = d.folder, seen |-> win.files,
                        phase |-> "running", row |-> NewRowIndex(win.rows),
                        paused |-> FALSE, cancelled |-> FALSE]
             closed == [win EXCEPT !.dialog = NoneRec]
         IN  win' = IF ~ok THEN closed
                    ELSE [closed EXCEPT !.url_edit = "",
                                        !.download_button = FALSE,
                                        !.dirs = @ \cup {dir},
                                        !.tasks = Append(@, worker),
                                        !.rows = @ + 1,
                                        !.active_downloads =
                                            DictSet(@, worker.row, Len(win.tasks) + 1)]
    /\ UNCHANGED download

\* a DownloadWorker's provider creates the output file
TaskWrites ==
    /\ win.close.state # "closed"
    /\ \E i \in 1..Len(win.tasks) :
         /\ win.tasks[i].phase = "running"
         /\ win' = [win EXCEPT !.tasks[i].phase = "writing",
                               !.files = @ \cup {win.tasks[i].forced_outtmpl}]
    /\ UNCHANGED download

\* a DownloadWorker's run() returns
TaskEnds ==
    /\ win.close.state # "closed"
    /\ \E i \in 1..Len(win.tasks) :
         /\ win.tasks[i].phase # "ended"
         /\ win' = [win EXCEPT !.tasks[i].phase = "ended"]
    /\ UNCHANGED download

WindowNext ==
    \/ on_url_changed
    \/ FolderEdited
    \/ on_metadata_received
    \/ on_metadata_error
    \/ start_download
    \/ FilenameDialog
    \/ TaskWrites
    \/ TaskEnds

\* MainWindow's input side, the MetadataWorkers and the DownloadWorkers it starts
WindowSpec == Init /\ [][WindowNext]_vars

SubmitNext ==
    \/ on_url_changed
    \/ on_metadata_received
    \/ start_download
    \/ FilenameDialog
    \/ TaskWrites
    \/ TaskEnds

\* the submissions made to the first folder, and the DownloadWorkers they start
SubmitSpec == Init /\ [][SubmitNext]_vars

\* C22: a request with an empty URL, or with an empty or unusable download folder,
\* creates no task: every DownloadWorker started was asked for with a URL and a folder
\* that are not empty and the folder was, or became, a directory, and has one row.
C22_BadRequestRejected ==
    /\ \A i \in 1..Len(win.tasks) :
           /\ win.tasks[i].url # ""
           /\ win.tasks[i].folder # ""
           /\ win.tasks[i].usable
    /\ win.rows = Len(win.tasks)

\* C24: the cached metadata is the result of a probe of the URL it is cached for, and
\* so is the metadata every DownloadWorker was handed.
C24_CacheIsProbeOfUrl ==
    /\ win.cached_url # None => win.cached_from = win.cached_url
    /\ \A i \in 1..Len(win.tasks) :
           win.tasks[i].cached_metadata # NoneRec
               => win.tasks[i].cached_from = win.tasks[i].url

\* C27 as stated: two DownloadWorkers that have both not ended have different output
\* paths.
C27_LivePathsDiffer ==
    \A i, j \in 1..Len(win.tasks) :
        (i < j /\ win.tasks[i].phase # "ended" /\ win.tasks[j].phase # "ended")
            => win.tasks[i].forced_outtmpl # win.tasks[j].forced_outtmpl

\* C27, amended: the output path of a DownloadWorker was not an existing file when it
\* was submitted, so it differs from the path of every earlier worker whose output file
\* existed by then.
C27_PathFreeAtSubmission ==
    \A j \in 1..Len(win.tasks) :
        /\ win.tasks[j].forced_outtmpl \notin win.tasks[j].seen
        /\ \A i \in 1..(j - 1) :
               win.tasks[i].forced_outtmpl \in win.tasks[j].seen
                   => win.tasks[i].forced_outtmpl # win.tasks[j].forced_outtmpl

\* C27: a worker was submitted with the same folder, base name and extension as an
\* earlier one that had created its file, and both have not ended
C27_Witness ==
    \E i, j \in 1..Len(win.tasks) :
        /\ i < j
        /\ win.tasks[i].forced_outtmpl \in win.tasks[j].seen
        /\ win.tasks[j].forced_outtmpl = PathJoin(Folder, "a (1).mp4")
        /\ win.tasks[i].forced_outtmpl = PathJoin(Folder, "a.mp4")
        /\ win.tasks[i].phase # "ended"
        /\ win.tasks[j].phase # "ended"

\* C31: a worker given a forced output path writes that file and no other, and the
\* path it would clean up is that path, whichever way run() goes.
C31_ForcedPathVerbatim ==
    forced_outtmpl # None
        => /\ out_file # None => out_file = forced_outtmpl
           /\ current_outtmpl # None => current_outtmpl = forced_outtmpl

\* a worker was started for a direct-download URL
DirectRun == pc # "none" /\ IsDirectDownloadUrl(url)

\* the worker has emitted a progress signal of 100
Emitted100 == \E i \in ProgressIndexes : emitted[i].percent = Rat(100, 1)

\* the worker has emitted a signal of this kind
EmittedSig(sig) == \E i \in 1..Len(emitted) : emitted[i].sig = sig

\* while ffmpeg runs, every progress value reported lies in 0..99.9
Below100WhileRunning ==
    (DirectRun /\ pc # "done")
        => \A i \in ProgressIndexes :
               /\ ~RatLess(emitted[i].percent, Rat(0, 1))
               /\ ~RatLess(Rat(999, 10), emitted[i].percent)

\* after the exit: 100 is reported only by a run that ended without an error
\* event, and a run that emitted an error event reported neither 100 nor finished
HundredOnlyAfterCleanExit ==
    DirectRun
        => /\ Emitted100 => (pc = "done" /\ ~EmittedSig("error"))
           /\ EmittedSig("error") => (~Emitted100 /\ ~EmittedSig("finished"))

\* a step of a run that ends with the cancel flag set ends with an error event and
\* with neither 100 nor finished
CancelEndsInError ==
    (DirectRun /\ cancelled /\ pc = "d_loop" /\ pc' = "done")
        => (EmittedSig("error")' /\ ~Emitted100' /\ ~EmittedSig("finished")')

\* C32: in the direct download every progress value reported before ffmpeg exits lies
\* in 0..99.9, 100 is reported only after ffmpeg exited with code 0, and a non-zero
\* exit or a cancel yields an error event, no 100 and no finished event.
C32_DirectProgressAndExit ==
    [][/\ Below100WhileRunning'
       /\ HundredOnlyAfterCleanExit'
       /\ CancelEndsInError]_vars

\* ------------------------------------------------------------ the size label, called
\* most digits to the base 1024 of a byte count
MaxLimbs == 5

\* the digits a byte count is made of
LimbDigits == {0, 1, 1023}

\* the byte counts, by their digits: 0 (or None) up to 1024^MaxLimbs - 1
ByteCounts == UNION {[1..n -> LimbDigits] : n \in 1..MaxLimbs}

\* the computations of the label, not yet made
SizeCalls == [fn : {"filesize_str"}, limbs : ByteCounts, returned : {FALSE}, result : {None}]

SizeInit == NoWorkers /\ win = WindowAtStart /\ pause_log = NoPauseLog /\ call \in SizeCalls

\* the label is computed
SizeLabel ==
    /\ call.fn = "filesize_str"
    /\ ~call.returned
    /\ call' = [call EXCEPT !.returned = TRUE, !.result = FilesizeLabel(call.limbs)]
    /\ UNCHANGED <<pc, workerConfig, paused, cancelled, current_outtmpl, used_videasy_headers,
                   ydl_opts, info, in_retry, exc, callbacks, out_file, total_secs, fs,
                   emitted, pause_log, history, guiVars, meta, win>>

\* the size label on its own
SizeSpec == SizeInit /\ [][SizeLabel]_vars

\* the place of the highest digit that is not 0 (0: the byte count is 0)
TopDigit(limbs) ==
    LET set == {j \in 1..Len(limbs) : limbs[j] # 0}
    IN  IF set = {} THEN 0 ELSE CHOOSE j \in set : \A k \in set : k <= j

\* the label is a number, a space and this unit
HasUnit(label, unit) ==
    /\ Len(label) > Len(unit) + 1
    /\ SubSeq(label, Len(label) - Len(unit), Len(label)) = " " \o unit

\* C33: the label of a positive byte count n carries the first of the units B, KB, MB,
\* GB for which n divided by 1024 that many times is below 1024 (n has that many
\* digits to the base 1024), and TB if there is none; a missing or zero size gives
\* "Unknown".
C33_UnitIsFirstBelow1024 ==
    (call.fn = "filesize_str" /\ call.returned)
        => LET top == TopDigit(call.limbs)
           IN  IF top = 0 THEN call.result = "Unknown"
               ELSE IF top <= Len(SizeUnits) THEN HasUnit(call.result, SizeUnits[top])
               ELSE HasUnit(call.result, "TB")

\* C33: the label of a byte count of 1024^4 or more was computed, and it is in TB
C33_Witness ==
    /\ call.fn = "filesize_str"
    /\ call.returned
    /\ TopDigit(call.limbs) > Len(SizeUnits)
    /\ HasUnit(call.result, "TB")

\* ------------------------------------------------------------ MainWindow: the rows and
\* the workers registered under them
\* the entries of the context menu ("Pause" reads "Continue" on a paused worker)
MenuEntries == {"pause", "cancel"}

\* show_context_menu on a row of the table: the worker registered under the row is
\* paused or resumed, or cancelled and its output files removed
show_context_menu ==
    /\ Interactive
    /\ \E row \in 0..(win.rows - 1), entry \in MenuEntries :
         /\ row \in DOMAIN win.active_downloads
         /\ LET worker == win.active_downloads[row]
                chosen == IF win.command = NoCommandLog THEN win
                          ELSE [win EXCEPT !.command = [row |-> row, entry |-> entry]]
            IN  win' = IF entry = "pause"
                       THEN [chosen EXCEPT !.tasks[worker].paused = ~@]
                       ELSE [chosen EXCEPT
                               !.tasks[worker].cancelled = TRUE,
                               !.files = @ \ CancelTargets(win.tasks[worker].forced_outtmpl)]
    /\ UNCHANGED download

\* the same start, with the commands of the context menu recorded (None: none yet)
RegistryInit ==
    /\ NoWorkers
    /\ win = [WindowAtStart EXCEPT !.command = NoneRec]
    /\ pause_log = NoPauseLog
    /\ call = CallIdle

RegistryNext ==
    \/ on_url_changed
    \/ on_metadata_received
    \/ start_download
    \/ FilenameDialog
    \/ TaskEnds
    \/ show_context_menu

\* the submissions, the ends of the workers and the commands of the context menu
RegistrySpec == RegistryInit /\ [][RegistryNext]_vars

\* the rows of the workers started so far
RowsOf(w) == {w.tasks[i].row : i \in 1..Len(w.tasks)}

\* C34: every submission gets a row that no earlier worker has, a worker stays
\* registered under the row it was given, whatever was submitted, cancelled or ended
\* since, and a command chosen on a row changes the flags of that row's worker only.
C34_RegistryKeepsEveryTask ==
    [][/\ Len(win'.tasks) >= Len(win.tasks)
       /\ \A i \in 1..Len(win.tasks) : win'.tasks[i].row = win.tasks[i].row
       /\ \A i \in (Len(win.tasks) + 1)..Len(win'.tasks) :
              win'.tasks[i].row \notin RowsOf(win)
       /\ \A i \in 1..Len(win'.tasks) :
              /\ win'.tasks[i].row \in DOMAIN win'.active_downloads
              /\ win'.active_downloads[win'.tasks[i].row] = i
       /\ \A i \in 1..Len(win.tasks) :
              (\/ win'.tasks[i].paused # win.tasks[i].paused
               \/ win'.tasks[i].cancelled # win.tasks[i].cancelled)
                  => /\ win'.command # NoneRec
                     /\ win'.command.row = win.tasks[i].row]_vars

\* C34: two workers were submitted, the first has ended, and a cancel chosen on the
\* second row has reached the second worker and not the first
C34_Witness ==
    /\ Len(win.tasks) = 2
    /\ win.tasks[1].phase = "ended"
    /\ win.command = [row |-> 1, entry |-> "cancel"]
    /\ win.tasks[2].cancelled
    /\ ~win.tasks[1].cancelled
    /\ win.active_downloads[0] = 1
    /\ win.active_downloads[1] = 2

\* C35: the bundle returned for mp3 is the one every other video quality gives with
\* the same bitrate and net_config, and the bundle returned for "mp4 (without Audio)"
\* is the one every other audio bitrate gives with the same quality and net_config.
C35_IrrelevantParameterIgnored ==
    OptsReturned
        => /\ call.fmt = "mp3"
                 => \A q \in Qualities :
                        build_ydl_opts(call.fmt, q, call.audio_bitrate, call.net_config)
                            = call.result
           /\ call.fmt = "mp4 (without Audio)"
                 => \A b \in Bitrates :
                        build_ydl_opts(call.fmt, call.video_quality, b, call.net_config)
                            = call.result

\* C35: a bundle was built for mp3 with a quality ceiling given, and one for
\* "mp4 (without Audio)" with a bitrate given
C35_Witness ==
    /\ OptsReturned
    /\ \/ call.fmt = "mp3" /\ call.video_quality = "720" /\ call.audio_bitrate = "128"
          /\ call.result.format = "bestaudio"
       \/ call.fmt = "mp4 (without Audio)" /\ call.audio_bitrate = "320"
          /\ call.video_quality = "720" /\ call.result.postprocessors = NoneRec

\* the character of s at place i is whitespace
WsAt(s, i) == IsIn(SubSeq(s, i, i), WhitespaceChars)

\* C36: what sanitize_filename returns holds none of the characters < > : " / \ | ? *,
\* neither starts nor ends with whitespace, holds no two whitespace characters in a
\* row, and is at most 240 characters long.
C36_SanitizedIsClean ==
    (call.fn = "sanitize_filename" /\ Len(call.results) >= 1)
        => LET r == call.results[1]
           IN  /\ \A i \in 1..Len(r) : ~IsIn(SubSeq(r, i, i), InvalidFnChars)
               /\ Len(r) > 0 => (~WsAt(r, 1) /\ ~WsAt(r, Len(r)))
               /\ \A i \in 1..(Len(r) - 1) : ~(WsAt(r, i) /\ WsAt(r, i + 1))
               /\ Len(r) <= DefaultMaxLength

\* C36: sanitize_filename has returned for a name with invalid characters, with
\* whitespace runs and ends, or longer than 240 characters
C36_Witness ==
    /\ call.fn = "sanitize_filename"
    /\ Len(call.results) >= 1
    /\ \/ call.name = InvalidFnChars /\ call.results[1] = "_________"
       \/ call.name = "\n a \r\f b\t\t" /\ call.results[1] = "a b"
       \/ Len(call.name) > DefaultMaxLength /\ Len(call.results[1]) = DefaultMaxLength

\* ------------------------------------------------------------ MainWindow.closeEvent
\* the workers closeEvent leaves out when it also skips the paused ones
RunningUnpaused(tasks) ==
    {i \in 1..Len(tasks) :
        tasks[i].phase # "ended" /\ ~tasks[i].cancelled /\ ~tasks[i].paused}

\* running_workers: the workers with isRunning() and not _cancelled
RunningWorkers(tasks) ==
    {i \in 1..Len(tasks) : tasks[i].phase # "ended" /\ ~tasks[i].cancelled}

\* closeEvent up to the question: with nothing running the folder is cleaned up and
\* the close accepted at once
closeEvent ==
    /\ Interactive
    /\ LET running_workers == RunningWorkers(win.tasks)
       IN  win' = IF running_workers # {}
                  THEN [win EXCEPT !.close = [state |-> "asking",
                                              running |-> running_workers,
                                              reply |-> None]]
                  ELSE [win EXCEPT !.close = [state |-> "closed", running |-> {},
                                              reply |-> None],
                                   !.files = cleanup_download_folder(@)]
    /\ UNCHANGED download

\* the answer to the question: No ignores the event, Yes cancels every worker of
\* running_workers
CloseReply ==
    /\ win.close.state = "asking"
    /\ \E reply \in {"Yes", "No"} :
         win' = IF reply = "No"
                THEN [win EXCEPT !.close.state = "open", !.close.reply = reply]
                ELSE [win EXCEPT
                        !.close.state = "waiting",
                        !.close.reply = reply,
                        !.tasks = [i \in 1..Len(win.tasks) |->
                                      IF i \in win.close.running
                                      THEN [win.tasks[i] EXCEPT !.cancelled = TRUE]
                                      ELSE win.tasks[i]]]
    /\ UNCHANGED download

\* after the waits: the folder is cleaned up and the close accepted
CloseAccept ==
    /\ win.close.state = "waiting"
    /\ win' = [win EXCEPT !.close.state = "closed",
                          !.files = cleanup_download_folder(@)]
    /\ UNCHANGED download

CloseNext ==
    \/ on_url_changed
    \/ on_metadata_received
    \/ start_download
    \/ FilenameDialog
    \/ TaskEnds
    \/ show_context_menu
    \/ closeEvent
    \/ CloseReply
    \/ CloseAccept

\* the submissions, the commands and the close of the window
CloseSpec == Init /\ [][CloseNext]_vars

\* the cancel and pause flags of the workers
Flags(w) == [i \in 1..Len(w.tasks) |-> <<w.tasks[i].cancelled, w.tasks[i].paused>>]

\* C37: when the window is closed with workers running and not cancelled, a No leaves
\* the window open and every cancel and pause flag as it was; a Yes sets the cancel
\* flag of every such worker and leaves the pause flags, the folder clean-up runs only
\* after that, with no worker both running and not cancelled, and the close is
\* accepted then.
C37_CloseCancelsOrIsIgnored ==
    [][/\ (win.close.state = "asking" /\ win'.close.state = "open")
              => (Flags(win') = Flags(win) /\ win'.files = win.files)
       /\ (win.close.state = "asking" /\ win'.close.state = "waiting")
              => \A i \in 1..Len(win.tasks) :
                     /\ win'.tasks[i].paused = win.tasks[i].paused
                     /\ (win.tasks[i].phase # "ended" /\ ~win.tasks[i].cancelled)
                            => win'.tasks[i].cancelled
       /\ (win.close.state = "asking" /\ win'.close.state # "asking")
              => win'.close.state \in {"open", "waiting"}
       /\ (win.close.state = "waiting" /\ win'.close.state # "waiting")
              => win'.close.state = "closed"
       /\ (win.close.reply = "Yes" /\ win'.close.state = "closed")
              => \A i \in 1..Len(win'.tasks) :
                     win'.tasks[i].phase # "ended" => win'.tasks[i].cancelled]_vars

\* C37: the window was closed on a Yes with two workers running, one of them paused,
\* and both are cancelled
C37_Witness ==
    /\ win.close.state = "closed"
    /\ win.close.reply = "Yes"
    /\ win.close.running = {1, 2}
    /\ win.tasks[1].cancelled
    /\ win.tasks[2].cancelled
    /\ win.tasks[1].paused \/ win.tasks[2].paused

\* ------------------------------------------------------------ run_cli
\* args.url: absent, empty, or a URL
UrlArgs == {None, "", "https://h/a.mp4"}

\* what is typed at the "Video URL: " prompt
PromptTexts == {"", "  ", " https://h/b "}

\* fmt after --format or ask_choice (None: the choice was skipped)
CliFmts == {None, "mp3", "mkv", "mp4 (without Audio)"}

\* resolution and bitrate after their options or ask_choice
CliResolutions == {None, "720"}
CliBitrates == {None, "128"}

\* args.filename
FilenameArgs == {None, " ", "clip"}

\* parse_ytdlp_args(args.ytdlp_args)
ExtraArgs == {<<>>, <<"-o", "o.%(ext)s">>, <<"--output">>}

\* the passthrough of -o/--output: the value after the last one that has a value
OutputArg(extra_ytdlp) ==
    LET at == {i \in 1..(Len(extra_ytdlp) - 1) : extra_ytdlp[i] \in {"-o", "--output"}}
    IN  IF at = {} THEN None
        ELSE extra_ytdlp[(CHOOSE i \in at : \A j \in at : j <= i) + 1]

\* the calls of run_cli, not yet made. typed: the answer to the URL prompt (None: not
\* asked); downloads: the calls of ydl.download, with their options and how they ended
CliCalls ==
    [fn : {"run_cli"}, url_arg : UrlArgs, pc : {"url"}, typed : {None}, url : {None},
     ydl_opts : {NoneRec}, downloads : {<<>>}, rc : {None}]

CliInit == Constructed /\ pause_log = NoPauseLog /\ call \in CliCalls

\* cli.py:73-79: the URL of the command line, or the stripped answer to the prompt;
\* without one, return 2
EnsureUrl ==
    /\ call.fn = "run_cli"
    /\ call.pc = "url"
    /\ \E text \in PromptTexts :
          LET asked == call.url_arg \in {None, ""}
              url_ == IF asked THEN Strip(text) ELSE call.url_arg
          IN  call' = [call EXCEPT
                         !.typed = IF asked THEN text ELSE None,
                         !.url = IF url_ = "" THEN None ELSE url_,
                         !.pc = IF url_ = "" THEN "returned" ELSE "options",
                         !.rc = IF url_ = "" THEN 2 ELSE None]
    /\ UNCHANGED <<pc, workerConfig, paused, cancelled, current_outtmpl, used_videasy_headers,
                   ydl_opts, info, in_retry, exc, callbacks, out_file, total_secs, fs,
                   emitted, pause_log, history, guiVars, meta, win>>

\* cli.py:81-141: the choices, the forced path and the options bundle. The mp3 branch
\* of build_ydl_opts has put the bitrate into the postprocessor already.
CliOptions ==
    /\ call.fn = "run_cli"
    /\ call.pc = "options"
    /\ \E fmt \in CliFmts, resolution \in CliResolutions, bitrate \in CliBitrates,
          filename \in FilenameArgs, extra_ytdlp \in ExtraArgs :
          LET default_ext == IF fmt = "mp3" THEN "mp3"
                             ELSE IF fmt \in {"avi", "mkv"} THEN Lower(fmt)
                             ELSE "mp4"
              base_name == IF filename = None THEN "" ELSE Strip(filename)
              final_fullpath == IF base_name = "" THEN None
                                ELSE unique_filename({}, Folder, base_name, default_ext)
              built == build_ydl_opts(IF fmt = None THEN "mp4 (with Audio)" ELSE fmt,
                                      resolution, bitrate, NetConfig)
              outtmpl == IF final_fullpath # None THEN final_fullpath
                         ELSE IF OutputArg(extra_ytdlp) # None THEN OutputArg(extra_ytdlp)
                         ELSE PathJoin(Folder, "%(title)s.%(ext)s")
          IN  call' = [call EXCEPT
                         !.ydl_opts = [built EXCEPT !.outtmpl = outtmpl],
                         !.pc = "download"]
    /\ UNCHANGED <<pc, workerConfig, paused, cancelled, current_outtmpl, used_videasy_headers,
                   ydl_opts, info, in_retry, exc, callbacks, out_file, total_secs, fs,
                   emitted, pause_log, history, guiVars, meta, win>>

\* a retry after every failure
CliRetriesAlways(e) == TRUE

\* cli.py:149-150: the test on str(e).lower()
CliRetries(e) == IsForbidden(e)

\* cli.py:143-147 and :148-165: the transfer; when it raises, the retry is entered or 1
\* is returned
CliDownload ==
    /\ call.fn = "run_cli"
    /\ call.pc = "download"
    /\ \E result \in {"ok"} \cup ProviderErrors :
          call' = [call EXCEPT
                     !.downloads = Append(@, [ydl_opts |-> call.ydl_opts,
                                              result |-> result]),
                     !.pc = IF result # "ok" /\ CliRetries(result)
                            THEN "retry" ELSE "returned",
                     !.rc = IF result = "ok" THEN 0
                            ELSE IF CliRetries(result) THEN None ELSE 1]
    /\ UNCHANGED <<pc, workerConfig, paused, cancelled, current_outtmpl, used_videasy_headers,
                   ydl_opts, info, in_retry, exc, callbacks, out_file, total_secs, fs,
                   emitted, pause_log, history, guiVars, meta, win>>

\* cli.py:151-160: the transfer again, on a copy of the bundle with the fallback headers
CliRetry ==
    /\ call.fn = "run_cli"
    /\ call.pc = "retry"
    /\ \E result \in {"ok"} \cup ProviderErrors :
          call' = [call EXCEPT
                     !.downloads =
                         Append(@, [ydl_opts |-> [call.ydl_opts EXCEPT
                                                    !.http_headers = VideasyHeaders],
                                    result |-> result]),
                     !.pc = "returned",
                     !.rc = IF result = "ok" THEN 0 ELSE 1]
    /\ UNCHANGED <<pc, workerConfig, paused, cancelled, current_outtmpl, used_videasy_headers,
                   ydl_opts, info, in_retry, exc, callbacks, out_file, total_secs, fs,
                   emitted, pause_log, history, guiVars, meta, win>>

CliNext == EnsureUrl \/ CliOptions \/ CliDownload \/ CliRetry

\* run_cli on its own
CliSpec == CliInit /\ [][CliNext]_vars

\* no URL on the command line and none at the prompt
NoUrlGiven ==
    /\ call.url_arg \in {None, ""}
    /\ call.typed # None
    /\ Strip(call.typed) = ""

\* C38: run_cli calls the provider at most twice; the second call is made only after
\* the first raised with a message that holds "403" or "forbidden" in any case, and it
\* carries the fallback headers. Once run_cli has returned: the value is 2 exactly
\* when no URL was given, and then the provider was never called; it is 0 exactly when
\* the last provider call succeeded; it is 1 in every other case.
C38_CliReturnCodes ==
    call.fn = "run_cli" =>
        /\ Len(call.downloads) <= 2
        /\ Len(call.downloads) = 2 =>
              /\ call.downloads[1].result # "ok"
              /\ IsForbidden(call.downloads[1].result)
              /\ call.downloads[1].ydl_opts.http_headers = NoneRec
              /\ call.downloads[2].ydl_opts.http_headers = VideasyHeaders
        /\ call.pc = "retry" =>
              /\ Len(call.downloads) = 1
              /\ IsForbidden(call.downloads[1].result)
        /\ call.pc \in {"url", "options", "download"} => call.downloads = <<>>
        /\ call.pc = "returned" =>
              /\ call.rc \in {0, 1, 2}
              /\ (call.rc = 2) = NoUrlGiven
              /\ call.rc = 2 => call.downloads = <<>>
              /\ (call.rc = 0) = (/\ call.downloads # <<>>
                                  /\ call.downloads[Len(call.downloads)].result = "ok")
              /\ call.rc = 1 =>
                    /\ call.downloads # <<>>
                    /\ \/ Len(call.downloads) = 2
                       \/ ~IsForbidden(call.downloads[1].result)

\* C38: run_cli has returned 0 after a transfer that was forbidden and a retry with the
\* fallback headers that succeeded, for a URL typed at the prompt
C38_Witness ==
    /\ call.fn = "run_cli"
    /\ call.pc = "returned"
    /\ call.rc = 0
    /\ call.typed # None
    /\ Len(call.downloads) = 2
    /\ call.downloads[1].result = "ERROR: Forbidden"
    /\ call.downloads[2].ydl_opts.http_headers = VideasyHeaders

============================================================================
